---- MODULE Spec2Model ----
(***************************************************************************)
(* Agent Senate: the quota-aware Gemini adapter of lib/providers.ts and    *)
(* the experiment engine of lib/experiment.ts.                             *)
(*                                                                         *)
(* The module has layers over one set of variables.  Spec, FairSpec and    *)
(* QueueSpec are the adapter; LlmSpec is callLlm in front of it, with or   *)
(* without API keys, and ProviderSpec is callLlm with calls to every       *)
(* provider; DebateSpec is one runDebate alone and ConfiguredSpec the same *)
(* with the round count parsed from its setting; ExperimentSpec is a whole *)
(* runExperiment, in which callLlm is a call that returns a text or throws *)
(* an Error; DeterministicSpec is the same with backends that answer by    *)
(* the request, and RoundsSpec that under each number of rounds; RouteSpec *)
(* puts the POST handler of app/api/experiment in front of runExperiment;  *)
(* ClientSpec is the page (ExperimentClient) with a server that answers    *)
(* each question with a Run or an error, and ArrangeSpec the page with     *)
(* every card of its arrange list dragged and moved.                       *)
(*                                                                         *)
(* Every Gemini call made through callLlm is chained on the process-wide   *)
(* promise geminiQueue (enqueueGeminiWork).  Once its predecessor has      *)
(* settled, a call runs callGeminiWithFallbackAndRetries: for each model   *)
(* candidate, up to GEMINI_MAX_RETRIES + 1 attempts, each one a sleep      *)
(* followed by one HTTP request (callGeminiSingle).                       *)
(*                                                                         *)
(* Calls are numbered in the order callGemini is invoked: call k is the    *)
(* k-th one enqueued.  Time is in milliseconds and advances in steps of    *)
(* TickMs.  Strings that the code parses are sequences of one-character    *)
(* strings.                                                                *)
(***************************************************************************)
EXTENDS Integers, Sequences, FiniteSets, TLC

\* ------------------------------------------------------------------ bounds

\* Number of Gemini calls issued by the callers (conditions, rounds, agents).
NumCalls == 2

\* The clock advances by at most this many milliseconds in one step.
TickMs == 1000

\* Elapsed-time counters stop counting at this many milliseconds.
AgeCap == 6000

\* Number of questions the page sends to the server.
MaxRuns == 2

\* ------------------------------------------------------- program constants

GEMINI_REQUEST_SPACING_MS == 2500

GEMINI_MAX_RETRIES == 2

GEMINI_RETRY_BACKOFF_MS == 3000

\* getModelCatalog().gemini: the model every Gemini call asks for.
GEMINI_MODEL == "gemini-2.5-flash"

\* Values of the GEMINI_FALLBACK_MODELS setting (already split and trimmed).
GEMINI_FALLBACK_MODELS_Settings ==
  { <<>>,
    <<"gemini-flash-latest">>,
    <<"gemini-2.5-flash", "gemini-flash-latest", "gemini-flash-latest">> }

Calls == 1..NumCalls

\* ------------------------------------------------------------ small helpers

Max(a, b) == IF a >= b THEN a ELSE b

Min(a, b) == IF a <= b THEN a ELSE b

\* JavaScript's undefined, as a value comparable with error records.
Undefined ==
  [type |-> "undefined", status |-> 0, model |-> "", bodyStatus |-> "",
   details |-> <<>>, message |-> ""]

\* Variant: the values are taken as they are given.
uniqueValues_AsGiven(values) == values

\* [...new Set(values)]: first occurrences, in order.
RECURSIVE uniqueValues(_)
uniqueValues(values) ==
  IF values = <<>> THEN <<>>
  ELSE LET init == uniqueValues(SubSeq(values, 1, Len(values) - 1))
           last == values[Len(values)]
       IN  IF \E i \in 1..Len(init) : init[i] = last
           THEN init
           ELSE Append(init, last)

\* ------------------------------------------------- parsing the retry hint

Digits == {"0", "1", "2", "3", "4", "5", "6", "7", "8", "9"}

DigitVal(c) ==
  CASE c = "0" -> 0 [] c = "1" -> 1 [] c = "2" -> 2 [] c = "3" -> 3
    [] c = "4" -> 4 [] c = "5" -> 5 [] c = "6" -> 6 [] c = "7" -> 7
    [] c = "8" -> 8 [] c = "9" -> 9

\* Not-a-number, and a number as the exact fraction num / den (den > 0).
NaN == [nan |-> TRUE, num |-> 0, den |-> 1]

Num(n, d) == [nan |-> FALSE, num |-> n, den |-> d]

\* String.prototype.trim on a sequence of characters.
RECURSIVE TrimStart(_)
TrimStart(s) ==
  IF s # <<>> /\ s[1] = " " THEN TrimStart(Tail(s)) ELSE s

RECURSIVE TrimEnd(_)
TrimEnd(s) ==
  IF s # <<>> /\ s[Len(s)] = " " THEN TrimEnd(SubSeq(s, 1, Len(s) - 1)) ELSE s

Trim(s) == TrimEnd(TrimStart(s))

\* The longest prefix of s made of digits, as <<value, number of digits>>.
RECURSIVE DigitRun(_, _, _)
DigitRun(s, value, count) ==
  IF s # <<>> /\ s[1] \in Digits
  THEN DigitRun(Tail(s), 10 * value + DigitVal(s[1]), count + 1)
  ELSE <<value, count>>

Pow10(n) == 10 ^ n

\* Number.parseInt(s, 10): leading blanks, an optional sign, then digits.
parseInt(s) ==
  LET t    == TrimStart(s)
      neg  == t # <<>> /\ t[1] = "-"
      body == IF t # <<>> /\ t[1] \in {"-", "+"} THEN Tail(t) ELSE t
      run  == DigitRun(body, 0, 0)
  IN  IF run[2] = 0 THEN NaN
      ELSE Num(IF neg THEN 0 - run[1] ELSE run[1], 1)

\* Number.parseFloat(s) for decimal literals without exponent: leading
\* blanks, an optional sign, digits, optionally "." and more digits.
parseFloat(s) ==
  LET t     == TrimStart(s)
      neg   == t # <<>> /\ t[1] = "-"
      body  == IF t # <<>> /\ t[1] \in {"-", "+"} THEN Tail(t) ELSE t
      whole == DigitRun(body, 0, 0)
      rest  == SubSeq(body, whole[2] + 1, Len(body))
      frac  == IF rest # <<>> /\ rest[1] = "." THEN DigitRun(Tail(rest), 0, 0)
               ELSE <<0, 0>>
      n     == whole[1] * Pow10(frac[2]) + frac[1]
  IN  IF whole[2] = 0 /\ frac[2] = 0 THEN NaN
      ELSE Num(IF neg THEN 0 - n ELSE n, Pow10(frac[2]))

\* Math.ceil(x * factor) of the fraction x.
CeilTimes(x, factor) == 0 - (((0 - x.num) * factor) \div x.den)

\* ---------------------------------------------------------- error values

\* createGeminiError: an Error that carries status, model, bodyText and the
\* parsed body (its error.status and error.details).
createGeminiError(status, body, model) ==
  [type |-> "GeminiCallError", status |-> status, model |-> model,
   bodyStatus |-> body.status, details |-> body.details,
   message |-> "Gemini request failed"]

\* Any other Error: an aborted (timed out) fetch, a response without text.
PlainError(message) ==
  [type |-> "Error", status |-> 0, model |-> "", bodyStatus |-> "",
   details |-> <<>>, message |-> message]

\* The error raised when the final error is a 404.
AllModels404Error == PlainError("All configured Gemini models returned 404")

isGeminiCallError(error) == error.type = "GeminiCallError"

isRetryableGeminiError(error) ==
  IF ~isGeminiCallError(error) THEN FALSE
  ELSE error.status = 429 \/ error.status >= 500

isModelNotFoundError(error) ==
  IF ~isGeminiCallError(error) THEN FALSE
  ELSE error.status = 404

isQuotaError(error) ==
  IF ~isGeminiCallError(error) THEN FALSE
  ELSE error.bodyStatus = "RESOURCE_EXHAUSTED" \/ error.status = 429

\* detail["@type"]?.includes("RetryInfo")
IncludesRetryInfo(type) == type = "type.googleapis.com/google.rpc.RetryInfo"

\* Array.prototype.find: the first RetryInfo detail, or none.
RECURSIVE FindRetryInfo(_)
FindRetryInfo(details) ==
  IF details = <<>> THEN [found |-> FALSE, retryDelay |-> <<>>]
  ELSE IF IncludesRetryInfo(details[1].type)
       THEN [found |-> TRUE, retryDelay |-> details[1].retryDelay]
       ELSE FindRetryInfo(Tail(details))

\* Variant: the seconds of the hint are taken for milliseconds.
extractRetryDelayMs_Unscaled(error) ==
  IF ~isGeminiCallError(error) THEN NaN
  ELSE LET retryDelayValue == FindRetryInfo(error.details).retryDelay
           normalized      == Trim(retryDelayValue)
           seconds         == parseFloat(SubSeq(normalized, 1, Len(normalized) - 1))
       IN  IF retryDelayValue = <<>> THEN NaN
           ELSE IF normalized # <<>> /\ normalized[Len(normalized)] = "s"
                   /\ ~seconds.nan
                THEN Num(CeilTimes(seconds, 1), 1)
                ELSE parseInt(normalized)

\* The retry hint of an error in milliseconds; nan when there is none.
extractRetryDelayMs(error) ==
  IF ~isGeminiCallError(error) THEN NaN
  ELSE LET retryDelayValue == FindRetryInfo(error.details).retryDelay
           normalized      == Trim(retryDelayValue)
           seconds         == parseFloat(SubSeq(normalized, 1, Len(normalized) - 1))
       IN  IF retryDelayValue = <<>> THEN NaN
           ELSE IF normalized # <<>> /\ normalized[Len(normalized)] = "s"
                   /\ ~seconds.nan
                THEN Num(CeilTimes(seconds, 1000), 1)
                ELSE parseInt(normalized)

computeRetryDelay(error, attempt) ==
  LET retryHintMs == extractRetryDelayMs(error)
  IN  IF ~retryHintMs.nan
      THEN Max(retryHintMs.num, GEMINI_REQUEST_SPACING_MS)
      ELSE Max(GEMINI_RETRY_BACKOFF_MS * 2 ^ (attempt - 1), GEMINI_REQUEST_SPACING_MS)

\* ------------------------------------------------- what the server answers

RetryInfo(retryDelay) ==
  [type |-> "type.googleapis.com/google.rpc.RetryInfo", retryDelay |-> retryDelay]

QuotaFailure ==
  [type |-> "type.googleapis.com/google.rpc.QuotaFailure", retryDelay |-> <<>>]

\* Error bodies: the error.status and error.details of the JSON body (both
\* empty when the body is not JSON).
NoBody == [status |-> "", details |-> <<>>]

\* What one HTTP request can end in.
HttpReplies ==
  { [kind |-> "ok", status |-> 200, body |-> NoBody],
    [kind |-> "http", status |-> 429,
     body |-> [status |-> "RESOURCE_EXHAUSTED",
               details |-> <<QuotaFailure, RetryInfo(<<"5", "s">>)>>]],
    [kind |-> "http", status |-> 429,
     body |-> [status |-> "RESOURCE_EXHAUSTED",
               details |-> <<RetryInfo(<<"1", ".", "5", "s">>)>>]],
    [kind |-> "http", status |-> 429,
     body |-> [status |-> "RESOURCE_EXHAUSTED", details |-> <<>>]],
    [kind |-> "http", status |-> 503, body |-> NoBody],
    [kind |-> "http", status |-> 404,
     body |-> [status |-> "NOT_FOUND", details |-> <<>>]],
    [kind |-> "http", status |-> 400,
     body |-> [status |-> "INVALID_ARGUMENT", details |-> <<>>]],
    [kind |-> "http", status |-> 403,
     body |-> [status |-> "RESOURCE_EXHAUSTED", details |-> <<>>]],
    [kind |-> "timeout", status |-> 0, body |-> NoBody],
    [kind |-> "empty", status |-> 200, body |-> NoBody] }

\* The text a model returns.
Text(model) ==
  [type |-> "text", status |-> 200, model |-> model, bodyStatus |-> "",
   details |-> <<>>, message |-> ""]

\* callGeminiSingle: the text of the reply, or the error it throws.
callGeminiSingle(model, reply) ==
  CASE reply.kind = "ok"      -> Text(model)
    [] reply.kind = "http"    -> createGeminiError(reply.status, reply.body, model)
    [] reply.kind = "timeout" -> PlainError("The operation was aborted due to timeout")
    [] reply.kind = "empty"   -> PlainError("Gemini response was missing text content.")

\* ------------------------------------------------- experiment: pure parts

\* The largest roster a debate is run with.
MaxAgents == 2

\* The largest number of rounds a debate is configured with.
MaxRounds == 2

\* Line 13.
MAX_SINGLE_RESPONSE_TOKENS == 1000

\* The NaN of a round count, kept apart from every integer a setting
\* parses to.  It is negative, so that `round <= rounds` is false for it
\* as it is for NaN.
NotANumber == 0 - 2 ^ 30

\* A parsed number as a round count.
RoundCount(x) == IF x.nan THEN NotANumber ELSE x.num

\* Math.max(a, b): NaN when an argument is NaN.
MathMax(a, b) == IF a = NotANumber \/ b = NotANumber THEN NotANumber ELSE Max(a, b)

\* a + b: NaN when an operand is NaN.
Plus(a, b) == IF a = NotANumber \/ b = NotANumber THEN NotANumber ELSE a + b

\* Values of the DEBATE_ROUNDS setting: not set (the default "2" is
\* parsed), numbers, the empty string, a word.
DEBATE_ROUNDS_Settings ==
  { <<"2">>, <<"1">>, <<"0">>, <<"-", "1">>, <<" ", "2">>, <<>>, <<"t", "w", "o">> }

\* Line 15: Number.parseInt(process.env.DEBATE_ROUNDS ?? "2", 10).
DEFAULT_DEBATE_ROUNDS(setting) == RoundCount(parseInt(setting))

\* Line 14: DEBATE_MAX_OUTPUT_TOKENS, by default.
MAX_DEBATE_RESPONSE_TOKENS == 450

\* Line 16: FORCE_GEMINI_ONLY, by default.
FORCE_GEMINI_ONLY == TRUE

\* Lines 61-96: conditionRunners, by position.
Conditions == 1..4

ConditionIds ==
  <<"single_plain", "multi_mixed_models", "multi_same_model_roles", "single_role">>

\* The runners that call runDebateCondition.
DebateConditions == {2, 3}

\* Lines 19-31: the system prompts of the two single-call conditions.
SingleInstructions ==
  <<"CORE_SINGLE_INSTRUCTIONS", "", "", "ROLE_BASED_SINGLE_INSTRUCTIONS">>

\* Lines 57-58.
singleProvider == IF FORCE_GEMINI_ONLY THEN "gemini" ELSE "openai"

singleModel == IF FORCE_GEMINI_ONLY THEN GEMINI_MODEL ELSE "gpt-4.1-mini"

getConditionLabels(forceGeminiOnly) ==
  IF forceGeminiOnly
  THEN <<"Single Gemini (first attempt)",
         "4-agent debate (Gemini-backed stand-ins)",
         "4 Gemini agents with distinct roles",
         "Single Gemini with role prompt">>
  ELSE <<"Single ChatGPT (first attempt)",
         "4-model debate (ChatGPT + Claude + Gemini + Grok)",
         "4 ChatGPT agents with distinct roles",
         "Single ChatGPT with role prompt">>

conditionLabels == getConditionLabels(FORCE_GEMINI_ONLY)

Agent(id, name, provider, model, isModerator) ==
  [id |-> id, name |-> name, provider |-> provider, model |-> model,
   isModerator |-> isModerator]

buildGeminiBackedMixedAgents(geminiModel) ==
  <<Agent("chatgpt_slot", "ChatGPT Slot (Gemini backend)", "gemini", geminiModel, TRUE),
    Agent("claude_slot", "Claude Slot (Gemini backend)", "gemini", geminiModel, FALSE),
    Agent("gemini_slot", "Gemini Slot", "gemini", geminiModel, FALSE),
    Agent("grok_slot", "Grok Slot (Gemini backend)", "gemini", geminiModel, FALSE)>>

buildMixedModelAgents(forceGeminiOnly) ==
  IF forceGeminiOnly THEN buildGeminiBackedMixedAgents(GEMINI_MODEL)
  ELSE <<Agent("chatgpt_moderator", "ChatGPT Moderator", "openai", "gpt-4.1-mini", TRUE),
         Agent("claude_reasoner", "Claude", "anthropic", "claude-3-7-sonnet-latest", FALSE),
         Agent("gemini_evidence", "Gemini", "gemini", GEMINI_MODEL, FALSE),
         Agent("grok_challenger", "Grok", "xai", "grok-2-latest", FALSE)>>

buildSameModelRoleAgents(provider, model) ==
  <<Agent("lead_moderator", "Lead Moderator", provider, model, TRUE),
    Agent("skeptic", "Skeptic", provider, model, FALSE),
    Agent("researcher", "Researcher", provider, model, FALSE),
    Agent("pragmatist", "Pragmatist", provider, model, FALSE)>>

\* A text of `length` characters; `cut` > 0: only its first `cut`
\* characters, followed by "...".
TextOf(body, length) == [body |-> body, length |-> length, cut |-> 0]

\* What a backend may answer: a short text and one longer than the 280
\* characters a peer statement may take.
BackendTexts == {TextOf("t1", 120), TextOf("t2", 300)}

\* What callLlm may throw: always an instance of Error, be it a plain Error
\* (lines 620, 703, 727, 759, 772, 823, 880), the error of createGeminiError
\* (line 863), or the TypeError or DOMException of a failed or timed-out fetch.
BackendErrors ==
  {PlainError("Gemini response was missing text content."),
   createGeminiError(429, [status |-> "RESOURCE_EXHAUSTED", details |-> <<>>],
                     GEMINI_MODEL)}

\* Variant: the text is cut at maxChars - 3 whatever its length.
clampText_Always(input, maxChars) ==
  [body |-> input.body, length |-> maxChars, cut |-> maxChars - 3]

clampText(input, maxChars) ==
  IF input.length <= maxChars THEN input
  ELSE [body |-> input.body, length |-> maxChars, cut |-> maxChars - 3]

\* A turn's agentName is a list of words: the agent's name, and for the
\* synthesis turn "(Final Synthesis)" after it.
Turn(round, agent, agentName, content) ==
  [round |-> round, agentId |-> agent.id, agentName |-> agentName,
   provider |-> agent.provider, model |-> agent.model, content |-> content]

\* Variant: the agent's own turn is not filtered out.
Peers_WithSelf(turns, selfAgentId) == turns

\* Line 363.
Peers(turns, selfAgentId) ==
  LET NotSelf(turn) == turn.agentId # selfAgentId
  IN  SelectSeq(turns, NotSelf)

\* The lines of the peer section: <<>> stands for the one line
\* "- No prior peer statements available."
formatPeerContext(turns, selfAgentId) ==
  LET peers == Peers(turns, selfAgentId)
  IN  [k \in 1..Len(peers) |->
         [round |-> peers[k].round, agentId |-> peers[k].agentId,
          agentName |-> peers[k].agentName,
          content |-> clampText(peers[k].content, 280)]]

\* A prompt: which template it is, and what is filled into it.
Prompt(kind, persona, round, totalRounds, lines) ==
  [kind |-> kind, persona |-> persona, round |-> round,
   totalRounds |-> totalRounds, lines |-> lines]

\* The round-1 prompt has no peer section at all.
buildRoundPrompt(round, totalRounds, agent, previousRoundTurns) ==
  IF round = 1
  THEN Prompt("round 1", "", round, totalRounds, <<>>)
  ELSE Prompt("round N", "", round, totalRounds,
              formatPeerContext(previousRoundTurns, agent.id))

buildModeratorPrompt(transcript, rounds) ==
  LET UpToRounds(turn) == turn.round <= rounds
      kept == SelectSeq(transcript, UpToRounds)
  IN  Prompt("moderator", "", 0, rounds,
             [k \in 1..Len(kept) |->
                [round |-> kept[k].round, agentId |-> kept[k].agentId,
                 agentName |-> kept[k].agentName,
                 content |-> clampText(kept[k].content, 360)]])

Message(role, content) == [role |-> role, content |-> content]

\* Lines 191-198: DEBATE_SYSTEM_TEMPLATE with the persona filled in (an
\* agent's persona is told by its id).
SystemMessage(agent) ==
  Message("system", Prompt("DEBATE_SYSTEM_TEMPLATE", agent.id, 0, 0, <<>>))

\* Lines 122-131: the two messages of a single-call condition.
SingleMessages(index) ==
  <<Message("system", Prompt(SingleInstructions[index], "", 0, 0, <<>>)),
    Message("user", Prompt("Question", "", 0, 0, <<>>))>>

\* The input of a callLlm invocation.
LlmCallInput(provider, model, messages, temperature, maxTokens) ==
  [provider |-> provider, model |-> model, messages |-> messages,
   temperature |-> temperature, maxTokens |-> maxTokens]

ConditionResultOf(conditionId, conditionLabel, answer, transcript) ==
  [conditionId |-> conditionId, conditionLabel |-> conditionLabel,
   answer |-> answer, transcript |-> transcript]

\* Variant: the result carries no transcript.
SingleResult_NoTurn(index, answer) ==
  ConditionResultOf(ConditionIds[index], conditionLabels[index], answer, <<>>)

\* Lines 141-155: what runSingleCondition returns.
SingleResult(index, answer) ==
  ConditionResultOf(ConditionIds[index], conditionLabels[index], answer,
    <<[round |-> 1, agentId |-> "single", agentName |-> <<"Single Model">>,
       provider |-> singleProvider, model |-> singleModel, content |-> answer]>>)

\* reason instanceof Error
InstanceOfError(reason) == reason.type \in {"Error", "GeminiCallError"}

\* Variant: the message of the error is left out of the answer.
errorMessage_Dropped(reason) == "Unknown failure"

\* Line 409.
errorMessage(reason) ==
  IF InstanceOfError(reason) THEN reason.message ELSE "Unknown failure"

fallbackMappings ==
  <<[id |-> "single_plain", label |-> "Single model (first attempt)"],
    [id |-> "multi_mixed_models", label |-> "4-agent mixed-model debate"],
    [id |-> "multi_same_model_roles",
     label |-> "4 same-model agents with distinct roles"],
    [id |-> "single_role", label |-> "Single model with role prompt"]>>

\* The answer of a failed condition: "This condition failed to run."
\* followed by "Error: " and the message.
FailureAnswer(message) ==
  [body |-> "This condition failed to run.", error |-> message]

\* Variant: the mapping is read one slot too far.
fallbackAt_OffByOne(index) ==
  IF index + 1 \in 1..Len(fallbackMappings)
  THEN fallbackMappings[index + 1] ELSE fallbackMappings[1]

\* Line 408: fallbackMappings[index] ?? fallbackMappings[0]; `index` counts
\* from 1 here (the code's index + 1).
fallbackAt(index) ==
  IF index \in 1..Len(fallbackMappings)
  THEN fallbackMappings[index] ELSE fallbackMappings[1]

buildFailedConditionResult(index, reason) ==
  LET fallback == fallbackAt(index)
  IN  ConditionResultOf(fallback.id, fallback.label,
                        FailureAnswer(errorMessage(reason)), <<>>)

\* Variant: the swap index is drawn from the whole list at every position.
SwapChoices_WholeList(n) == [2..n -> 1..n]

\* The values Math.floor(Math.random() * (index + 1)) may take at each
\* index of the loop of lines 385-388, positions counted from 1.
SwapChoices(n) == {s \in [2..n -> 1..n] : \A index \in 2..n : s[index] <= index}

\* Variant: the element at j is copied to i and the one at i is lost.
Swap_Overwrites(seq, i, j) == [seq EXCEPT ![i] = seq[j]]

\* Line 387.
Swap(seq, i, j) == [seq EXCEPT ![i] = seq[j], ![j] = seq[i]]

\* Lines 385-388, from `index` down to 2.
RECURSIVE Shuffle(_, _, _)
Shuffle(shuffled, index, swapIndex) ==
  IF index < 2 THEN shuffled
  ELSE Shuffle(Swap(shuffled, index, swapIndex[index]), index - 1, swapIndex)

labels == <<"Response A", "Response B", "Response C", "Response D">>

\* Variant: the label is taken from the condition's slot, not from the
\* position after the shuffle.
BlindIdAt_First(index) == labels[1]

\* Line 393: labels[index] ?? `Response ${index + 1}`.
BlindIdAt(index) ==
  IF index \in 1..Len(labels) THEN labels[index] ELSE "Response N"

blindAndShuffle(results, swapIndex) ==
  LET shuffled == Shuffle(results, Len(results), swapIndex)
  IN  [index \in 1..Len(shuffled) |->
         [blindId |-> BlindIdAt(index),
          answer |-> shuffled[index].answer,
          sourceConditionId |-> shuffled[index].conditionId,
          sourceConditionLabel |-> shuffled[index].conditionLabel,
          transcript |-> shuffled[index].transcript]]

\* ------------------------------------------------------ runDebate's frame

\* Line 251: the first agent flagged as moderator, else the first agent.
moderatorIndex_Last(roster) ==
  IF \E k \in 1..Len(roster) : roster[k].isModerator
  THEN CHOOSE k \in 1..Len(roster) :
         roster[k].isModerator /\ \A j \in 1..Len(roster) : roster[j].isModerator => j <= k
  ELSE Len(roster)

moderatorIndex(roster) ==
  IF \E k \in 1..Len(roster) : roster[k].isModerator
  THEN CHOOSE k \in 1..Len(roster) :
         roster[k].isModerator /\ \A j \in 1..k - 1 : ~roster[j].isModerator
  ELSE 1

\* The locals of a runDebate activation that has not begun, or is over.
NoFrame ==
  [stage |-> "none", rounds |-> 0, round |-> 0, agentIndex |-> 0,
   histories |-> <<>>, previousRoundTurns |-> <<>>, contributions |-> <<>>,
   transcript |-> <<>>, answer |-> TextOf("", 0)]

\* Lines 188-198: one history per agent id, holding the system message.
NewFrame(roster, rounds) ==
  [NoFrame EXCEPT
     !.rounds = rounds,
     !.histories =
       [id \in {roster[k].id : k \in 1..Len(roster)} |->
          LET last == CHOOSE k \in 1..Len(roster) :
                        /\ roster[k].id = id
                        /\ \A j \in k + 1..Len(roster) : roster[j].id # id
          IN  <<SystemMessage(roster[last])>>]]

\* Variant: every prompt is appended to one history, the first agent's.
AskAgent_OneHistory(frame, roster, round, index, previousRoundTurns, contributions) ==
  LET agent == roster[index]
      roundPrompt == buildRoundPrompt(round, frame.rounds, agent, previousRoundTurns)
  IN  [frame EXCEPT
         !.stage = "round", !.round = round, !.agentIndex = index,
         !.previousRoundTurns = previousRoundTurns,
         !.contributions = contributions,
         !.histories[roster[1].id] = Append(@, Message("user", roundPrompt))]

\* Lines 206-231: the prompt of agent `index` for `round` is appended to its
\* history and callLlm is invoked.
AskAgent(frame, roster, round, index, previousRoundTurns, contributions) ==
  LET agent == roster[index]
      roundPrompt == buildRoundPrompt(round, frame.rounds, agent, previousRoundTurns)
  IN  [frame EXCEPT
         !.stage = "round", !.round = round, !.agentIndex = index,
         !.previousRoundTurns = previousRoundTurns,
         !.contributions = contributions,
         !.histories[agent.id] = Append(@, Message("user", roundPrompt))]

\* Lines 251-269: the moderator's prompt is appended to the moderator's
\* history and callLlm is invoked.
AskModerator(frame, roster) ==
  LET moderator == roster[moderatorIndex(roster)]
  IN  [frame EXCEPT
         !.stage = "synthesis", !.agentIndex = moderatorIndex(roster),
         !.histories[moderator.id] =
           Append(@, Message("user",
                             buildModeratorPrompt(frame.transcript, frame.rounds)))]

\* Variant: the loop counts its rounds in steps of two.
NextRound_Skips(round) == round + 2

\* Line 200: round += 1.
NextRound(round) == round + 1

\* Variant: the loop's test is round < rounds.
BeginRound_Exclusive(frame, roster, round) ==
  IF round < frame.rounds
  THEN LET ThePreviousRound(turn) == turn.round = round - 1
       IN  AskAgent(frame, roster, round, 1,
                    SelectSeq(frame.transcript, ThePreviousRound), <<>>)
  ELSE AskModerator(frame, roster)

\* Line 200: the loop's test, before round `round`.
BeginRound(frame, roster, round) ==
  IF round <= frame.rounds
  THEN LET ThePreviousRound(turn) == turn.round = round - 1
       IN  AskAgent(frame, roster, round, 1,
                    SelectSeq(frame.transcript, ThePreviousRound), <<>>)
  ELSE AskModerator(frame, roster)

\* Variant: the round's contributions are not pushed to the transcript.
CommitRound_Forgotten(transcript, contributions) == transcript

\* Line 248: transcript.push(...contributions).
CommitRound(transcript, contributions) == transcript \o contributions

\* Variant: the answer is recorded as a turn but not pushed to the history.
AfterRoundReply_NotKept(frame, roster, content) ==
  LET agent == roster[frame.agentIndex]
      contributions ==
        Append(frame.contributions, Turn(frame.round, agent, <<agent.name>>, content))
  IN  IF frame.agentIndex < Len(roster)
      THEN AskAgent(frame, roster, frame.round, frame.agentIndex + 1,
                    frame.previousRoundTurns, contributions)
      ELSE BeginRound([frame EXCEPT
                         !.transcript = CommitRound(frame.transcript, contributions),
                         !.contributions = contributions],
                      roster, NextRound(frame.round))

\* Lines 233-249: callLlm returned `content` for the agent of a round.
AfterRoundReply(frame, roster, content) ==
  LET agent == roster[frame.agentIndex]
      answered == [frame EXCEPT
                     !.histories[agent.id] = Append(@, Message("assistant", content))]
      contributions ==
        Append(frame.contributions, Turn(frame.round, agent, <<agent.name>>, content))
  IN  IF frame.agentIndex < Len(roster)
      THEN AskAgent(answered, roster, frame.round, frame.agentIndex + 1,
                    frame.previousRoundTurns, contributions)
      ELSE BeginRound([answered EXCEPT
                         !.transcript = CommitRound(frame.transcript, contributions),
                         !.contributions = contributions],
                      roster, NextRound(frame.round))

\* Lines 271-283: callLlm returned the moderator's final answer.
AfterSynthesisReply(frame, roster, finalAnswer) ==
  LET moderator == roster[moderatorIndex(roster)]
  IN  [frame EXCEPT
         !.stage = "done", !.answer = finalAnswer,
         !.transcript =
           Append(@, Turn(Plus(frame.rounds, 1), moderator,
                          <<moderator.name, "(Final Synthesis)">>, finalAnswer))]

\* The messages of the call the frame is waiting for.
AwaitedCall(frame, roster) ==
  LET agent == roster[frame.agentIndex]
  IN  IF frame.stage = "round"
      THEN LlmCallInput(agent.provider, agent.model, frame.histories[agent.id],
                        "0.5", MAX_DEBATE_RESPONSE_TOKENS)
      ELSE LlmCallInput(agent.provider, agent.model, frame.histories[agent.id],
                        "0.2", 950)

\* Lines 166-179: runDebateCondition's result.
DebateResult(index, frame) ==
  ConditionResultOf(ConditionIds[index], conditionLabels[index],
                    frame.answer, frame.transcript)

\* ------------------------------------------------------------------- state

VARIABLES
  fallbackModels,  \* GEMINI_FALLBACK_MODELS, read once from the environment
  geminiQueue,     \* the call whose settling the queue's tail promise awaits (0: none)
  sinceSettle,     \* ms since the last HTTP request settled (-1: none has yet)
  pc,              \* per call: where it is
  prev,            \* per call: the geminiQueue value its task was chained on
  modelIndex,      \* per call: position of `model` in modelCandidates
  attempt,         \* per call: the inner loop's counter
  currentError,    \* per call
  lastError,       \* per call
  preferredError,  \* per call
  timer,           \* per call: ms left of the running sleep
  slept,           \* per call: ms elapsed since the running sleep began
  sent,            \* per call: requests sent so far, per candidate
  failures,        \* per call and candidate: <<status, body status>> of each failed request
  outcome          \* per call: the text returned or the error thrown

VARIABLES
  serialize,       \* SERIALIZE_CONDITIONS
  debateRounds,    \* DEFAULT_DEBATE_ROUNDS
  agents,          \* per condition: the roster handed to runDebate (<<>>: none)
  epc,             \* runExperiment: "idle", "running", "returned"
  current,         \* runConditionsSequentially: position of the loop (0: not in it)
  results,         \* runConditionsSequentially: the results pushed so far
  responses,       \* the responses of the Run that was returned
  cpc,             \* per condition: "idle", "awaiting", "fulfilled", "rejected"
  debate,          \* per condition: the locals of its runDebate activation
  pending,         \* per condition: the callLlm invocations not yet settled
  issued,          \* per condition: number of callLlm invocations made
  settledWith      \* per condition: the ConditionResult or the error of its promise

VARIABLES
  backend,         \* what the backends answer to each kind of request (<<>>: anything)
  request,         \* the request POST is handling and its response
  llm,             \* the environment callLlm reads and the input of its calls
  client           \* the state of the ExperimentClient component

adapterVars ==
  <<fallbackModels, geminiQueue, sinceSettle, pc, prev, modelIndex, attempt,
    currentError, lastError, preferredError, timer, slept, sent, failures, outcome>>

experimentVars ==
  <<serialize, debateRounds, agents, epc, current, results, responses, cpc,
    debate, pending, issued, settledWith>>

\* The variables of what surrounds the engine: its backends, its route
\* handler, callLlm's environment and the page.
otherVars == <<backend, request, llm, client>>

vars == <<adapterVars, experimentVars, otherVars>>

\* Line 783: the preferred model, then the fallbacks, without duplicates.
modelCandidates == uniqueValues(<<GEMINI_MODEL>> \o fallbackModels)

NoCandidates == Len(modelCandidates)

\* The promise `run` of a call has settled (its caller may have resumed).
Settled(c) == pc[c] \in {"resolved", "rejected", "returned", "thrown"}

\* A call between the start of its task and its settling.
Running(c) == pc[c] \in {"sleeping", "inflight"}

\* Variant: the task is chained with then(task) alone on a tail that keeps
\* the rejection of the call before it.
QueueSettled_FulfilledOnly(q) ==
  IF q = 0 THEN TRUE ELSE pc[q] \in {"resolved", "returned"}

\* Variant: the queue is released as soon as the call ahead is between two
\* requests, not when it has settled.
QueueSettled_BetweenRequests(q) ==
  IF q = 0 THEN TRUE ELSE Settled(q) \/ pc[q] = "sleeping"

\* The promise a task was chained on has settled: the initial
\* Promise.resolve(), or run.then(() => undefined, () => undefined) of an
\* earlier call, which settles when that run resolves or rejects.
QueueSettled(q) == IF q = 0 THEN TRUE ELSE Settled(q)

\* Promise reactions run before any timer or network callback: the task of
\* a call whose predecessor has settled, and the continuation of a caller
\* whose call has settled.
MicrotaskPending ==
  \E c \in Calls :
    \/ pc[c] = "queued" /\ QueueSettled(prev[c])
    \/ pc[c] \in {"resolved", "rejected"}

\* sleep(ms): no timer at all for ms <= 0.
sleep(ms) == IF ms <= 0 THEN 0 ELSE ms

\* Variant: no pre-call spacing before a first attempt.
AttemptDelay_NoSpacing(error, n) ==
  IF n = 0 THEN 0 ELSE computeRetryDelay(error, n)

\* Line 796: the delay before attempt number `n` on a candidate.
AttemptDelay(error, n) ==
  IF n = 0 THEN GEMINI_REQUEST_SPACING_MS ELSE computeRetryDelay(error, n)

\* Variant: a 404 is retried like a 429.
RetriesAgain_NotFoundToo(error, n) ==
  (isRetryableGeminiError(error) \/ isModelNotFoundError(error))
    /\ n + 1 <= GEMINI_MAX_RETRIES

\* Variant: the test for a retryable error is negated.
RetriesAgain_Negated(error, n) ==
  ~isRetryableGeminiError(error) /\ n + 1 <= GEMINI_MAX_RETRIES

\* Variant: the loop bound is off by one.
RetriesAgain_OneMore(error, n) ==
  isRetryableGeminiError(error) /\ n + 1 <= GEMINI_MAX_RETRIES + 1

\* Variant: the inner loop does not look at the kind of error.
RetriesAgain_AnyError(error, n) == n + 1 <= GEMINI_MAX_RETRIES

\* Lines 794-804: after a failed attempt number `n`, the inner loop goes on.
RetriesAgain(error, n) ==
  isRetryableGeminiError(error) /\ n + 1 <= GEMINI_MAX_RETRIES

\* Variant: preferredError is never recorded.
PreferredAfter_Never(preferred, error) == preferred

\* Lines 808-810: preferredError after a candidate ended with `error`.
PreferredAfter(preferred, error) ==
  IF error # Undefined /\ ~isModelNotFoundError(error) THEN error ELSE preferred

\* Variant: every failure moves on to the next candidate.
ContinuesToNextModel_Always(error) == TRUE

\* Variant: only a 404 moves on to the next candidate.
ContinuesToNextModel_NotFoundOnly(error) == isModelNotFoundError(error)

\* Lines 812-818: the outer loop goes on to the next candidate (if any).
ContinuesToNextModel(error) ==
  \/ isModelNotFoundError(error)
  \/ ~(~isQuotaError(error) /\ ~isRetryableGeminiError(error))

\* Variant: preferredError is thrown as it is, also when nothing was recorded.
ThrownError_PreferredOnly(preferred, last) == preferred

\* Lines 821-830: what the call throws once the loop is over.
ThrownError(preferred, last) ==
  LET finalError == IF preferred # Undefined THEN preferred ELSE last
  IN  IF isModelNotFoundError(finalError) THEN AllModels404Error
      ELSE IF finalError # Undefined THEN finalError
      ELSE PlainError("Gemini request failed.")

Zeros == [i \in 1..NoCandidates |-> 0]

NoFailures == [i \in 1..NoCandidates |-> <<>>]

\* Nothing surrounds the engine: no request, no page, any backend.
OthersIdle ==
  /\ backend = <<>>
  /\ request = Undefined
  /\ llm = Undefined
  /\ client = Undefined

\* No experiment is running.
ExperimentIdle ==
  /\ epc = "idle"
  /\ current = 0
  /\ results = <<>>
  /\ responses = <<>>
  /\ cpc = [c \in Conditions |-> "idle"]
  /\ debate = [c \in Conditions |-> NoFrame]
  /\ pending = [c \in Conditions |-> <<>>]
  /\ issued = [c \in Conditions |-> 0]
  /\ settledWith = [c \in Conditions |-> Undefined]

\* The configuration runExperiment reads: the rosters of lines 76 and 84.
DefaultConfiguration ==
  /\ serialize = TRUE
  /\ debateRounds = 2
  /\ agents = [c \in Conditions |->
                 CASE c = 2 -> buildMixedModelAgents(FORCE_GEMINI_ONLY)
                   [] c = 3 -> buildSameModelRoleAgents(singleProvider, singleModel)
                   [] OTHER -> <<>>]

\* No adapter call has been made yet.
AdapterIdle ==
  /\ fallbackModels \in GEMINI_FALLBACK_MODELS_Settings
  /\ geminiQueue = 0
  /\ sinceSettle = -1
  /\ pc = [c \in Calls |-> "idle"]
  /\ prev = [c \in Calls |-> 0]
  /\ modelIndex = [c \in Calls |-> 0]
  /\ attempt = [c \in Calls |-> 0]
  /\ currentError = [c \in Calls |-> Undefined]
  /\ lastError = [c \in Calls |-> Undefined]
  /\ preferredError = [c \in Calls |-> Undefined]
  /\ timer = [c \in Calls |-> 0]
  /\ slept = [c \in Calls |-> 0]
  /\ sent = [c \in Calls |-> Zeros]
  /\ failures = [c \in Calls |-> NoFailures]
  /\ outcome = [c \in Calls |-> Undefined]

Init ==
  /\ AdapterIdle
  /\ DefaultConfiguration
  /\ ExperimentIdle
  /\ OthersIdle

\* ----------------------------------------------------------------- actions

\* callLlm -> callGemini -> enqueueGeminiWork: chain the task on the queue
\* and make the queue wait for it.  Call c is the c-th one enqueued.
callGemini(c) ==
  /\ pc[c] = "idle"
  /\ \A d \in Calls : d < c => pc[d] # "idle"
  /\ prev' = [prev EXCEPT ![c] = geminiQueue]
  /\ geminiQueue' = c
  /\ pc' = [pc EXCEPT ![c] = "queued"]
  /\ UNCHANGED <<fallbackModels, sinceSettle, modelIndex, attempt, currentError,
                 lastError, preferredError, timer, slept, sent, failures, outcome>>
  /\ UNCHANGED <<experimentVars, otherVars>>

\* Variant: the task is invoked at once instead of being chained on the queue.
TaskMayStart_Unchained(c) == pc[c] = "queued"

\* geminiQueue.then(task, task): the task starts once the promise it was
\* chained on has settled.
TaskMayStart(c) == pc[c] = "queued" /\ QueueSettled(prev[c])

\* The task begins: callGeminiWithFallbackAndRetries up to its first sleep.
StartTask(c) ==
  /\ TaskMayStart(c)
  /\ pc' = [pc EXCEPT ![c] = "sleeping"]
  /\ modelIndex' = [modelIndex EXCEPT ![c] = 1]
  /\ attempt' = [attempt EXCEPT ![c] = 0]
  /\ currentError' = [currentError EXCEPT ![c] = Undefined]
  /\ lastError' = [lastError EXCEPT ![c] = Undefined]
  /\ preferredError' = [preferredError EXCEPT ![c] = Undefined]
  /\ timer' = [timer EXCEPT ![c] = sleep(AttemptDelay(Undefined, 0))]
  /\ slept' = [slept EXCEPT ![c] = 0]
  /\ UNCHANGED <<fallbackModels, geminiQueue, sinceSettle, prev, sent, failures, outcome>>
  /\ UNCHANGED <<experimentVars, otherVars>>

\* The milliseconds that pass in one step of the clock: TickMs, or less
\* when a timer expires before that.
TickStep ==
  LET left == {timer[c] : c \in {d \in Calls : pc[d] = "sleeping" /\ timer[d] > 0}}
  IN  IF left = {} THEN TickMs
      ELSE Min(TickMs, CHOOSE t \in left : \A u \in left : t <= u)

\* Time passes: running timers count down, elapsed times count up.
Tick ==
  /\ ~MicrotaskPending
  /\ timer' = [c \in Calls |->
                 IF pc[c] = "sleeping" THEN Max(0, timer[c] - TickStep) ELSE timer[c]]
  /\ slept' = [c \in Calls |->
                 IF pc[c] = "sleeping" THEN Min(AgeCap, slept[c] + TickStep) ELSE slept[c]]
  /\ sinceSettle' = IF sinceSettle < 0 THEN sinceSettle
                    ELSE Min(AgeCap, sinceSettle + TickStep)
  /\ UNCHANGED <<fallbackModels, geminiQueue, pc, prev, modelIndex, attempt,
                 currentError, lastError, preferredError, sent, failures, outcome>>
  /\ UNCHANGED <<experimentVars, otherVars>>

\* The sleep is over: callGeminiSingle sends its request.
SendRequest(c) ==
  /\ ~MicrotaskPending
  /\ pc[c] = "sleeping"
  /\ timer[c] = 0
  /\ pc' = [pc EXCEPT ![c] = "inflight"]
  /\ sent' = [sent EXCEPT ![c][modelIndex[c]] = @ + 1]
  /\ slept' = [slept EXCEPT ![c] = 0]
  /\ UNCHANGED <<fallbackModels, geminiQueue, sinceSettle, prev, modelIndex, attempt,
                 currentError, lastError, preferredError, timer, failures, outcome>>
  /\ UNCHANGED <<experimentVars, otherVars>>

\* Variant: only a first attempt returns its text; the text of a retry is
\* dropped and the error before it is thrown.
Resolve_FirstAttemptOnly(c, text) ==
  /\ pc' = [pc EXCEPT ![c] = IF attempt[c] = 0 THEN "resolved" ELSE "rejected"]
  /\ outcome' = [outcome EXCEPT ![c] = IF attempt[c] = 0 THEN text ELSE currentError[c]]
  /\ UNCHANGED <<modelIndex, attempt, currentError, lastError, preferredError,
                 timer, slept>>

\* The request is answered with text: the call returns it.
Resolve(c, text) ==
  /\ pc' = [pc EXCEPT ![c] = "resolved"]
  /\ outcome' = [outcome EXCEPT ![c] = text]
  /\ UNCHANGED <<modelIndex, attempt, currentError, lastError, preferredError,
                 timer, slept>>

\* Variant: every failure that is retried is recorded as the preferred error.
Retry_RecordsPreferred(c, error) ==
  /\ pc' = [pc EXCEPT ![c] = "sleeping"]
  /\ currentError' = [currentError EXCEPT ![c] = error]
  /\ preferredError' = [preferredError EXCEPT ![c] = error]
  /\ attempt' = [attempt EXCEPT ![c] = @ + 1]
  /\ timer' = [timer EXCEPT ![c] = sleep(AttemptDelay(error, attempt[c] + 1))]
  /\ slept' = [slept EXCEPT ![c] = 0]
  /\ UNCHANGED <<modelIndex, lastError, outcome>>

\* The request failed and the inner loop goes round again.
Retry(c, error) ==
  /\ pc' = [pc EXCEPT ![c] = "sleeping"]
  /\ currentError' = [currentError EXCEPT ![c] = error]
  /\ attempt' = [attempt EXCEPT ![c] = @ + 1]
  /\ timer' = [timer EXCEPT ![c] = sleep(AttemptDelay(error, attempt[c] + 1))]
  /\ slept' = [slept EXCEPT ![c] = 0]
  /\ UNCHANGED <<modelIndex, lastError, preferredError, outcome>>

\* The candidate's attempts ended with `error`: on to the next candidate,
\* or out of the loop and throw.
EndCandidate(c, error) ==
  LET preferred == PreferredAfter(preferredError[c], error)
  IN  /\ lastError' = [lastError EXCEPT ![c] = error]
      /\ preferredError' = [preferredError EXCEPT ![c] = preferred]
      /\ IF ContinuesToNextModel(error) /\ modelIndex[c] < NoCandidates
         THEN /\ pc' = [pc EXCEPT ![c] = "sleeping"]
              /\ modelIndex' = [modelIndex EXCEPT ![c] = @ + 1]
              /\ currentError' = [currentError EXCEPT ![c] = Undefined]
              /\ attempt' = [attempt EXCEPT ![c] = 0]
              /\ timer' = [timer EXCEPT ![c] = sleep(AttemptDelay(Undefined, 0))]
              /\ slept' = [slept EXCEPT ![c] = 0]
              /\ UNCHANGED outcome
         ELSE /\ pc' = [pc EXCEPT ![c] = "rejected"]
              /\ currentError' = [currentError EXCEPT ![c] = error]
              /\ outcome' = [outcome EXCEPT ![c] = ThrownError(preferred, error)]
              /\ UNCHANGED <<modelIndex, attempt, timer, slept>>

\* The request of call c settles with `reply`; the call runs on to its next
\* sleep or to its end.
RequestSettles(c, reply) ==
  /\ ~MicrotaskPending
  /\ pc[c] = "inflight"
  /\ LET result == callGeminiSingle(modelCandidates[modelIndex[c]], reply)
     IN  /\ IF result.type = "text" THEN Resolve(c, result)
            ELSE IF RetriesAgain(result, attempt[c]) THEN Retry(c, result)
            ELSE EndCandidate(c, result)
         /\ failures' = IF result.type = "text" THEN failures
                        ELSE [failures EXCEPT ![c][modelIndex[c]] =
                                Append(@, <<result.status, result.bodyStatus>>)]
  /\ sinceSettle' = 0
  /\ UNCHANGED <<fallbackModels, geminiQueue, prev, sent>>
  /\ UNCHANGED <<experimentVars, otherVars>>

\* The caller awaiting the call resumes with the text or the error; the
\* call's frame is gone.
ReturnToCaller(c) ==
  /\ pc[c] \in {"resolved", "rejected"}
  /\ pc' = [pc EXCEPT ![c] = IF pc[c] = "resolved" THEN "returned" ELSE "thrown"]
  /\ modelIndex' = [modelIndex EXCEPT ![c] = 0]
  /\ attempt' = [attempt EXCEPT ![c] = 0]
  /\ currentError' = [currentError EXCEPT ![c] = Undefined]
  /\ lastError' = [lastError EXCEPT ![c] = Undefined]
  /\ preferredError' = [preferredError EXCEPT ![c] = Undefined]
  /\ timer' = [timer EXCEPT ![c] = 0]
  /\ slept' = [slept EXCEPT ![c] = 0]
  /\ sent' = [sent EXCEPT ![c] = Zeros]
  /\ failures' = [failures EXCEPT ![c] = NoFailures]
  /\ outcome' = [outcome EXCEPT ![c] = Undefined]
  /\ UNCHANGED <<fallbackModels, geminiQueue, sinceSettle, prev>>
  /\ UNCHANGED <<experimentVars, otherVars>>

Next ==
  \/ \E c \in Calls : callGemini(c)
  \/ \E c \in Calls : StartTask(c)
  \/ Tick
  \/ \E c \in Calls : SendRequest(c)
  \/ \E c \in Calls : \E reply \in HttpReplies : RequestSettles(c, reply)
  \/ \E c \in Calls : ReturnToCaller(c)

Spec == Init /\ [][Next]_vars

\* The state in which every call but the last one has come and gone: they
\* were enqueued in turn, ran and returned, the last of them just now or
\* long ago.
InitLastCall ==
  /\ fallbackModels \in GEMINI_FALLBACK_MODELS_Settings
  /\ geminiQueue = NumCalls - 1
  /\ sinceSettle \in {0, AgeCap}
  /\ pc = [c \in Calls |-> IF c < NumCalls THEN "returned" ELSE "idle"]
  /\ prev = [c \in Calls |-> IF c < NumCalls THEN c - 1 ELSE 0]
  /\ modelIndex = [c \in Calls |-> 0]
  /\ attempt = [c \in Calls |-> 0]
  /\ currentError = [c \in Calls |-> Undefined]
  /\ lastError = [c \in Calls |-> Undefined]
  /\ preferredError = [c \in Calls |-> Undefined]
  /\ timer = [c \in Calls |-> 0]
  /\ slept = [c \in Calls |-> 0]
  /\ sent = [c \in Calls |-> Zeros]
  /\ failures = [c \in Calls |-> NoFailures]
  /\ outcome = [c \in Calls |-> Undefined]
  /\ DefaultConfiguration
  /\ ExperimentIdle
  /\ OthersIdle

\* The last call, under a running event loop: every request is answered or
\* times out, timers fire, promise reactions run, time passes.  Each step
\* uses up a timer, an attempt, a candidate or a call, so no step can be
\* taken forever in place of another one.
FairSpec == InitLastCall /\ [][Next]_vars /\ WF_vars(Next)

\* Every call from its enqueueing on, under a running event loop.
QueueSpec == Init /\ [][Next]_vars /\ WF_vars(Next)

\* ------------------------------------------------------------- experiment

SettledCondition(c) == cpc[c] \in {"fulfilled", "rejected"}

\* runDebateCondition (line 170) and runDebate up to its first await.
StartedFrame(c) ==
  IF c \in DebateConditions
  THEN BeginRound(NewFrame(agents[c], MathMax(1, debateRounds)), agents[c], 1)
  ELSE NoFrame

\* The first callLlm invocation of a condition (lines 133-139 for a
\* single-call condition).
FirstCall(c) ==
  IF c \in DebateConditions THEN AwaitedCall(StartedFrame(c), agents[c])
  ELSE LlmCallInput(singleProvider, singleModel, SingleMessages(c),
                    "0.2", MAX_SINGLE_RESPONSE_TOKENS)

\* The runners of the conditions in S are invoked: each runs up to its
\* first await, the callLlm invocation it has just made.
Launch(S) ==
  /\ cpc' = [c \in Conditions |-> IF c \in S THEN "awaiting" ELSE cpc[c]]
  /\ debate' = [c \in Conditions |-> IF c \in S THEN StartedFrame(c) ELSE debate[c]]
  /\ pending' = [c \in Conditions |->
                   IF c \in S THEN Append(pending[c], FirstCall(c)) ELSE pending[c]]
  /\ issued' = [c \in Conditions |-> IF c \in S THEN issued[c] + 1 ELSE issued[c]]
  /\ UNCHANGED settledWith

\* Variant: the sequential loop invokes every remaining runner at once.
RunnersInvoked_Eagerly(index) == index..Len(ConditionIds)

\* Line 562: the runner the sequential loop invokes at `index`.
RunnersInvoked(index) == {index}

\* Variant: concurrent mode invokes the first runner only.
RunnersMapped_FirstOnly == {1}

\* Line 572: conditionRunners.map((runCondition) => runCondition()).
RunnersMapped == Conditions

\* runDebateCondition is called on its own.
runDebateCondition(c) ==
  /\ epc = "idle"
  /\ \A d \in Conditions : cpc[d] = "idle"
  /\ Launch({c})
  /\ UNCHANGED <<serialize, debateRounds, agents, epc, current, results, responses>>
  /\ UNCHANGED <<adapterVars, otherVars>>

\* Lines 53-100: runExperiment up to its await.
runExperiment ==
  /\ epc = "idle"
  /\ \A d \in Conditions : cpc[d] = "idle"
  /\ epc' = "running"
  /\ IF serialize
     THEN current' = 1 /\ Launch(RunnersInvoked(1))
     ELSE current' = 0 /\ Launch(RunnersMapped)
  /\ UNCHANGED <<serialize, debateRounds, agents, results, responses>>
  /\ UNCHANGED <<adapterVars, otherVars>>

\* The frame after callLlm returned `content` to it.
AfterReply(frame, roster, content) ==
  IF frame.stage = "round" THEN AfterRoundReply(frame, roster, content)
  ELSE AfterSynthesisReply(frame, roster, content)

\* The callLlm invocation condition c awaits returns `content`: the runner
\* goes on to its next await, or returns.
BackendReturns(c, content) ==
  /\ cpc[c] = "awaiting"
  /\ pending[c] # <<>>
  /\ IF c \in DebateConditions
     THEN LET frame == AfterReply(debate[c], agents[c], content)
          IN  /\ debate' = [debate EXCEPT ![c] = frame]
              /\ IF frame.stage = "done"
                 THEN /\ cpc' = [cpc EXCEPT ![c] = "fulfilled"]
                      /\ settledWith' = [settledWith EXCEPT ![c] = DebateResult(c, frame)]
                      /\ pending' = [pending EXCEPT ![c] = Tail(@)]
                      /\ UNCHANGED issued
                 ELSE /\ pending' = [pending EXCEPT
                                       ![c] = Append(Tail(@), AwaitedCall(frame, agents[c]))]
                      /\ issued' = [issued EXCEPT ![c] = @ + 1]
                      /\ UNCHANGED <<cpc, settledWith>>
     ELSE /\ cpc' = [cpc EXCEPT ![c] = "fulfilled"]
          /\ settledWith' = [settledWith EXCEPT ![c] = SingleResult(c, content)]
          /\ pending' = [pending EXCEPT ![c] = Tail(@)]
          /\ UNCHANGED <<debate, issued>>
  /\ UNCHANGED <<serialize, debateRounds, agents, epc, current, results, responses>>
  /\ UNCHANGED <<adapterVars, otherVars>>

\* Variant: the runner catches the error and returns what it has so far.
BackendThrows_Caught(c, error) ==
  /\ cpc[c] = "awaiting"
  /\ pending[c] # <<>>
  /\ cpc' = [cpc EXCEPT ![c] = "fulfilled"]
  /\ settledWith' = [settledWith EXCEPT
                       ![c] = IF c \in DebateConditions
                              THEN DebateResult(c, debate[c])
                              ELSE SingleResult(c, TextOf("", 0))]
  /\ pending' = [pending EXCEPT ![c] = Tail(@)]
  /\ UNCHANGED <<debate, issued>>
  /\ UNCHANGED <<serialize, debateRounds, agents, epc, current, results, responses>>
  /\ UNCHANGED <<adapterVars, otherVars>>

\* The callLlm invocation condition c awaits throws: nothing catches the
\* error below the coordinator, the runner's promise rejects with it.
BackendThrows(c, error) ==
  /\ cpc[c] = "awaiting"
  /\ pending[c] # <<>>
  /\ cpc' = [cpc EXCEPT ![c] = "rejected"]
  /\ settledWith' = [settledWith EXCEPT ![c] = error]
  /\ debate' = [debate EXCEPT ![c] = NoFrame]
  /\ pending' = [pending EXCEPT ![c] = Tail(@)]
  /\ UNCHANGED issued
  /\ UNCHANGED <<serialize, debateRounds, agents, epc, current, results, responses>>
  /\ UNCHANGED <<adapterVars, otherVars>>

\* Variant: a rejected condition leaves no result.
Collected_FulfilledOnly(c) ==
  IF cpc[c] = "fulfilled" THEN <<settledWith[c]>> ELSE <<>>

\* Lines 561-565 and 574-580: what the coordinator keeps of condition c.
Collected(c) ==
  IF cpc[c] = "fulfilled" THEN <<settledWith[c]>>
  ELSE <<buildFailedConditionResult(c, settledWith[c])>>

\* Lines 102-109: runExperiment after its await.
ReturnRun(conditionResults) ==
  /\ \E swapIndex \in SwapChoices(Len(conditionResults)) :
       responses' = blindAndShuffle(conditionResults, swapIndex)
  /\ epc' = "returned"

\* Lines 560-568: the runner awaited by the sequential loop has settled;
\* the loop keeps its result and invokes the next runner, or returns.
runConditionsSequentially ==
  /\ epc = "running" /\ serialize
  /\ current \in Conditions
  /\ SettledCondition(current)
  /\ results' = results \o Collected(current)
  /\ IF current < Len(ConditionIds)
     THEN /\ current' = current + 1
          /\ Launch(RunnersInvoked(current + 1))
          /\ UNCHANGED <<epc, responses>>
     ELSE /\ current' = 0
          /\ ReturnRun(results')
          /\ UNCHANGED <<cpc, debate, pending, issued, settledWith>>
  /\ UNCHANGED <<serialize, debateRounds, agents>>
  /\ UNCHANGED <<adapterVars, otherVars>>

\* Lines 572-580: Promise.allSettled has settled.
runConditionsInParallel ==
  /\ epc = "running" /\ ~serialize
  /\ \A c \in RunnersMapped : SettledCondition(c)
  /\ results' = Collected(1) \o Collected(2) \o Collected(3) \o Collected(4)
  /\ ReturnRun(results')
  /\ UNCHANGED <<cpc, debate, pending, issued, settledWith, current>>
  /\ UNCHANGED <<serialize, debateRounds, agents>>
  /\ UNCHANGED <<adapterVars, otherVars>>

\* The rosters a debate is tried with: the first agents of a roster of the
\* code, with the moderator flag set on any of them or on none.
RosterInputs ==
  LET base == buildMixedModelAgents(FORCE_GEMINI_ONLY)
  IN  {[k \in 1..n |-> [base[k] EXCEPT !.isModerator = flag[k]]] :
         n \in 1..MaxAgents, flag \in [1..MaxAgents -> BOOLEAN]}

DebateInit ==
  /\ AdapterIdle /\ fallbackModels = <<>>
  /\ ExperimentIdle
  /\ OthersIdle
  /\ serialize = TRUE
  /\ debateRounds \in 0..MaxRounds
  /\ \E roster \in RosterInputs :
       agents = [c \in Conditions |-> IF c \in DebateConditions THEN roster ELSE <<>>]

DebateNext ==
  \/ \E c \in DebateConditions : runDebateCondition(c)
  \/ \E c \in Conditions : \E content \in BackendTexts : BackendReturns(c, content)
  \/ \E c \in Conditions : \E error \in BackendErrors : BackendThrows(c, error)

\* One debate-backed condition, run on its own.
DebateSpec == DebateInit /\ [][DebateNext]_vars

\* The round count is what the DEBATE_ROUNDS setting parses to.
ConfiguredInit ==
  /\ AdapterIdle /\ fallbackModels = <<>>
  /\ ExperimentIdle
  /\ OthersIdle
  /\ serialize = TRUE
  /\ \E setting \in DEBATE_ROUNDS_Settings : debateRounds = DEFAULT_DEBATE_ROUNDS(setting)
  /\ \E roster \in RosterInputs :
       agents = [c \in Conditions |-> IF c \in DebateConditions THEN roster ELSE <<>>]

\* One debate-backed condition under each setting of its rounds.
ConfiguredSpec == ConfiguredInit /\ [][DebateNext]_vars

\* README, line 62: DEBATE_ROUNDS of the quota-limited settings.
DEBATE_ROUNDS == 1

\* The configuration of a submission: either mode, the rounds of the
\* quota-limited settings, the first agents of the rosters of lines 76, 84.
SubmissionConfiguration ==
  /\ serialize \in BOOLEAN
  /\ debateRounds = DEBATE_ROUNDS
  /\ agents = [c \in Conditions |->
                 CASE c = 2 -> SubSeq(buildMixedModelAgents(FORCE_GEMINI_ONLY), 1, MaxAgents)
                   [] c = 3 -> SubSeq(buildSameModelRoleAgents(singleProvider, singleModel),
                                      1, MaxAgents)
                   [] OTHER -> <<>>]

ExperimentInit ==
  /\ AdapterIdle /\ fallbackModels = <<>>
  /\ ExperimentIdle
  /\ OthersIdle
  /\ SubmissionConfiguration

ExperimentNext ==
  \/ runExperiment
  \/ \E c \in Conditions : \E content \in BackendTexts : BackendReturns(c, content)
  \/ \E c \in Conditions : \E error \in BackendErrors : BackendThrows(c, error)
  \/ runConditionsSequentially
  \/ runConditionsInParallel

\* One submission: the four conditions, in serial or in concurrent mode.
ExperimentSpec == ExperimentInit /\ [][ExperimentNext]_vars

\* ------------------------------------------- experiment, fixed backends

\* What tells one request from another for a backend that answers by the
\* kind of the request: the template of the last message sent.
RequestKinds == {"Question", "round 1", "round N", "moderator"}

RequestKind(input) == input.messages[Len(input.messages)].content.kind

\* An answer of a backend: the text callLlm returns, or the error it throws.
Returned(text) == [text |-> text, error |-> Undefined]

Thrown(error) == [text |-> TextOf("", 0), error |-> error]

BackendAnswers == {Returned(text) : text \in BackendTexts}
                    \cup {Thrown(error) : error \in BackendErrors}

\* The callLlm invocation condition c awaits settles with what the backend
\* answers to that request.
callLlmSettles(c) ==
  /\ cpc[c] = "awaiting"
  /\ pending[c] # <<>>
  /\ LET answer == backend[RequestKind(Head(pending[c]))]
     IN  IF answer.error = Undefined
         THEN BackendReturns(c, answer.text)
         ELSE BackendThrows(c, answer.error)

DeterministicInit ==
  /\ AdapterIdle /\ fallbackModels = <<>>
  /\ ExperimentIdle
  /\ SubmissionConfiguration
  /\ backend \in [RequestKinds -> BackendAnswers]
  /\ request = Undefined
  /\ llm = Undefined
  /\ client = Undefined

DeterministicNext ==
  \/ runExperiment
  \/ \E c \in Conditions : callLlmSettles(c)
  \/ runConditionsSequentially
  \/ runConditionsInParallel

\* One submission whose backends answer each request by its kind.
DeterministicSpec == DeterministicInit /\ [][DeterministicNext]_vars

\* A submission under each number of rounds, in either mode.
RoundsInit ==
  /\ AdapterIdle /\ fallbackModels = <<>>
  /\ ExperimentIdle
  /\ serialize \in BOOLEAN
  /\ debateRounds \in 0..MaxRounds
  /\ agents = [c \in Conditions |->
                 CASE c = 2 -> SubSeq(buildMixedModelAgents(FORCE_GEMINI_ONLY), 1, MaxAgents)
                   [] c = 3 -> SubSeq(buildSameModelRoleAgents(singleProvider, singleModel),
                                      1, MaxAgents)
                   [] OTHER -> <<>>]
  /\ backend \in [RequestKinds -> BackendAnswers]
  /\ request = Undefined
  /\ llm = Undefined
  /\ client = Undefined

RoundsSpec == RoundsInit /\ [][DeterministicNext]_vars

\* ------------------------------------------------------------ the route

\* A string by its shape: `lead` whitespace characters, `core` characters
\* that neither start nor end with whitespace, `trail` whitespace characters.
Str(lead, core, trail) == [lead |-> lead, core |-> core, trail |-> trail]

StrLength(s) == s.lead + s.core + s.trail

\* String.prototype.trim, as zod's .trim() applies it.
StrTrim(s) == Str(0, s.core, 0)

\* A request body: whether it is JSON at all, and what its `question` is.
Body(json, kind, question) == [json |-> json, kind |-> kind, question |-> question]

\* The bodies POST is tried with: no JSON, JSON values that do not fit the
\* schema, and questions at the edges of the two length limits, bare or
\* wrapped in whitespace.
RequestBodies ==
  {Body(FALSE, "", Str(0, 0, 0)),
   Body(TRUE, "not an object", Str(0, 0, 0)),
   Body(TRUE, "missing", Str(0, 0, 0)),
   Body(TRUE, "number", Str(0, 0, 0))}
    \cup {Body(TRUE, "string", question) :
            question \in {Str(0, 0, 0), Str(5, 0, 4), Str(0, 7, 0), Str(2, 7, 1),
                          Str(0, 8, 0), Str(2, 1500, 1), Str(0, 1501, 0)}}

\* Variant: the limits are tested on the question as it was sent.
checkedQuestion_Untrimmed(question) == question

\* Line 100: the string the checks of lines 101 and 102 see.
checkedQuestion(question) == StrTrim(question)

\* Lines 97-103: requestSchema.safeParse(body); `message` is that of the
\* first issue.
safeParse(body) ==
  LET question == checkedQuestion(body.question)
      Failure(message) == [success |-> FALSE, question |-> question, message |-> message]
  IN  CASE body.kind = "not an object" -> Failure("Expected object")
        [] body.kind = "missing" -> Failure("Required")
        [] body.kind = "number" -> Failure("Expected string, received number")
        [] OTHER ->
             IF StrLength(question) < 8
             THEN Failure("Question must be at least 8 characters.")
             ELSE IF StrLength(question) > 1500
             THEN Failure("Question is too long for this MVP. Keep it under 1500 characters.")
             ELSE [success |-> TRUE, question |-> question, message |-> ""]

\* A request that has arrived and is not answered yet (status 0).
Received(body) == [body |-> body, status |-> 0, error |-> ""]

\* NextResponse.json({ error }, { status }).
ErrorResponse(status, error) == [request EXCEPT !.status = status, !.error = error]

\* Lines 105-119: POST up to its await of runExperiment, or to the response
\* it gives without it: 500 when request.json() throws (lines 121-129),
\* 400 when the body does not fit the schema (lines 110-117).
POST ==
  /\ request.status = 0
  /\ epc = "idle"
  /\ IF ~request.body.json
     THEN /\ request' = ErrorResponse(500, "Unexpected token in JSON")
          /\ UNCHANGED <<adapterVars, experimentVars, backend, llm, client>>
     ELSE IF ~safeParse(request.body).success
     THEN /\ request' = ErrorResponse(400, safeParse(request.body).message)
          /\ UNCHANGED <<adapterVars, experimentVars, backend, llm, client>>
     ELSE runExperiment

\* Line 120: runExperiment has returned the Run, which is the response.
Respond ==
  /\ request.status = 0
  /\ epc = "returned"
  /\ request' = [request EXCEPT !.status = 200]
  /\ UNCHANGED <<adapterVars, experimentVars, backend, llm, client>>

RouteInit ==
  /\ AdapterIdle /\ fallbackModels = <<>>
  /\ ExperimentIdle
  /\ SubmissionConfiguration
  /\ backend = <<>>
  /\ request \in {Received(body) : body \in RequestBodies}
  /\ llm = Undefined
  /\ client = Undefined

RouteNext ==
  \/ POST
  \/ \E c \in Conditions : \E content \in BackendTexts : BackendReturns(c, content)
  \/ \E c \in Conditions : \E error \in BackendErrors : BackendThrows(c, error)
  \/ runConditionsSequentially
  \/ runConditionsInParallel
  \/ Respond

\* One request to /api/experiment, from its arrival to its response.
RouteSpec == RouteInit /\ [][RouteNext]_vars

\* ----------------------------------------------------------------- callLlm

\* A text as its runs: whitespace characters and other characters in turn,
\* each run with its length.
Run(ws, n) == [ws |-> ws, n |-> n]

RECURSIVE RunsLength(_)
RunsLength(runs) == IF runs = <<>> THEN 0 ELSE Head(runs).n + RunsLength(Tail(runs))

\* replace(/\s+/g, " "): every run of whitespace becomes one space.
Condense(runs) == [k \in 1..Len(runs) |-> IF runs[k].ws THEN Run(TRUE, 1) ELSE runs[k]]

\* slice(0, count)
RECURSIVE Slice(_, _)
Slice(runs, count) ==
  IF runs = <<>> \/ count <= 0 THEN <<>>
  ELSE IF Head(runs).n <= count
       THEN <<Head(runs)>> \o Slice(Tail(runs), count - Head(runs).n)
       ELSE <<Run(Head(runs).ws, count)>>

\* "No prompt provided."
NoPromptProvided == <<Run(FALSE, 2), Run(TRUE, 1), Run(FALSE, 6), Run(TRUE, 1), Run(FALSE, 9)>>

\* Variant: the first user message is taken.
latestUserInput_First(messages) ==
  LET users == {k \in 1..Len(messages) : messages[k].role = "user"}
  IN  IF users = {} THEN NoPromptProvided
      ELSE messages[CHOOSE k \in users : \A j \in users : k <= j].content

\* Lines 663-665: the content of the last message whose role is "user".
latestUserInput(messages) ==
  LET users == {k \in 1..Len(messages) : messages[k].role = "user"}
  IN  IF users = {} THEN NoPromptProvided
      ELSE messages[CHOOSE k \in users : \A j \in users : j <= k].content

\* Variant: the prompt is cut before its whitespace is condensed.
condensedPrompt_CutFirst(latest) == Condense(Slice(latest, 220))

\* Line 666.
condensedPrompt(latest) == Slice(Condense(latest), 220)

\* Lines 668-673: the four lines of the placeholder; `marker` is what the
\* first line names between "[Mock " and "]".
buildMockResponse(input) ==
  [marker |-> <<input.provider, input.model>>,
   finalAnswer |-> "This is a placeholder response because API keys are not configured.",
   excerpt |-> condensedPrompt(latestUserInput(input.messages)),
   error |-> Undefined]

\* A value of process.env: not set, or set to a string.
NotSet == [defined |-> FALSE, value |-> ""]

SetTo(value) == [defined |-> TRUE, value |-> value]

\* Line 615: !apiKey
Falsy(apiKey) == ~apiKey.defined \/ apiKey.value = ""

\* Lines 647-660.
getApiKey(provider) == llm.env[provider]

\* The providers the calls are made to.
Providers == {"gemini", "openai"}

\* The conversations callLlm is tried with: a long prompt; two user
\* messages around an answer; no user message at all; a prompt whose
\* whitespace lies where the excerpt is cut.
Conversations ==
  {<<Message("system", <<Run(FALSE, 30)>>),
     Message("user", <<Run(FALSE, 300)>>)>>,
   <<Message("system", <<Run(FALSE, 30)>>),
     Message("user", <<Run(FALSE, 5), Run(TRUE, 3), Run(FALSE, 4)>>),
     Message("assistant", <<Run(FALSE, 40)>>),
     Message("user", <<Run(FALSE, 10), Run(TRUE, 2), Run(FALSE, 250)>>)>>,
   <<Message("system", <<Run(FALSE, 30)>>)>>,
   <<Message("system", <<Run(FALSE, 30)>>),
     Message("user", <<Run(TRUE, 2), Run(FALSE, 215), Run(TRUE, 10), Run(FALSE, 20)>>)>>}

\* What a call that did not go to Gemini came to: nothing yet.
NoResult == [marker |-> <<>>, finalAnswer |-> "", excerpt |-> <<>>, error |-> Undefined]

\* The text another provider's API answered with, and the error of a
\* failed request to it (lines 703, 727, 759, 772).
ProviderText == [NoResult EXCEPT !.finalAnswer = "text"]

ProviderFailure == [NoResult EXCEPT !.error = PlainError("OpenAI-compatible request failed")]

\* Lines 620-622.
MissingKey == [NoResult EXCEPT !.error = PlainError("Missing API key")]

\* Lines 612-645: callLlm up to its first await or to its end.  Without a
\* key it ends at once, in the placeholder or in the error; with one it
\* goes to the provider's function, which for Gemini chains the call on
\* the queue and for the others sends the request.
callLlm(c) ==
  /\ pc[c] = "idle"
  /\ \A d \in Calls : d < c => pc[d] # "idle"
  /\ LET input == llm.input[c]
     IN  IF Falsy(getApiKey(input.provider))
         THEN /\ IF llm.ALLOW_MOCK_RESPONSES
                 THEN /\ pc' = [pc EXCEPT ![c] = "returned"]
                      /\ llm' = [llm EXCEPT !.result[c] = buildMockResponse(input)]
                 ELSE /\ pc' = [pc EXCEPT ![c] = "thrown"]
                      /\ llm' = [llm EXCEPT !.result[c] = MissingKey]
              /\ UNCHANGED <<fallbackModels, geminiQueue, sinceSettle, prev, modelIndex,
                             attempt, currentError, lastError, preferredError, timer,
                             slept, sent, failures, outcome>>
              /\ UNCHANGED <<experimentVars, backend, request, client>>
         ELSE IF input.provider = "gemini"
         THEN callGemini(c)
         ELSE /\ pc' = [pc EXCEPT ![c] = "fetching"]
              /\ llm' = [llm EXCEPT !.fetches[c] = @ + 1]
              /\ UNCHANGED <<fallbackModels, geminiQueue, sinceSettle, prev, modelIndex,
                             attempt, currentError, lastError, preferredError, timer,
                             slept, sent, failures, outcome>>
              /\ UNCHANGED <<experimentVars, backend, request, client>>

\* Variant: a failed request to another provider is sent again, as a Gemini
\* request would be.
FetchSettles_Retried(c, result) ==
  /\ pc[c] = "fetching"
  /\ IF result.error # Undefined /\ llm.fetches[c] <= GEMINI_MAX_RETRIES
     THEN /\ llm' = [llm EXCEPT !.fetches[c] = @ + 1]
          /\ UNCHANGED pc
     ELSE /\ pc' = [pc EXCEPT ![c] = IF result.error = Undefined THEN "returned" ELSE "thrown"]
          /\ llm' = [llm EXCEPT !.result[c] = result]
  /\ UNCHANGED <<fallbackModels, geminiQueue, sinceSettle, prev, modelIndex,
                 attempt, currentError, lastError, preferredError, timer,
                 slept, sent, failures, outcome>>
  /\ UNCHANGED <<experimentVars, backend, request, client>>

\* Lines 683-727: the request to another provider settles.
FetchSettles(c, result) ==
  /\ pc[c] = "fetching"
  /\ pc' = [pc EXCEPT ![c] = IF result.error = Undefined THEN "returned" ELSE "thrown"]
  /\ llm' = [llm EXCEPT !.result[c] = result]
  /\ UNCHANGED <<fallbackModels, geminiQueue, sinceSettle, prev, modelIndex,
                 attempt, currentError, lastError, preferredError, timer,
                 slept, sent, failures, outcome>>
  /\ UNCHANGED <<experimentVars, backend, request, client>>

LlmInit ==
  /\ AdapterIdle /\ fallbackModels = <<>>
  /\ DefaultConfiguration
  /\ ExperimentIdle
  /\ backend = <<>>
  /\ request = Undefined
  /\ client = Undefined
  /\ \E env \in [Providers -> {NotSet, SetTo(""), SetTo("key")}] :
     \E allow \in BOOLEAN :
     \E provider \in [Calls -> Providers] :
     \E messages \in Conversations :
       llm = [env |-> env,
              ALLOW_MOCK_RESPONSES |-> allow,
              input |-> [c \in Calls |->
                           LlmCallInput(provider[c], GEMINI_MODEL, messages, "0.2",
                                        MAX_SINGLE_RESPONSE_TOKENS)],
              fetches |-> [c \in Calls |-> 0],
              result |-> [c \in Calls |-> NoResult]]

LlmNext ==
  \/ \E c \in Calls : callLlm(c)
  \/ \E c \in Calls : \E result \in {ProviderText, ProviderFailure} : FetchSettles(c, result)
  \/ \E c \in Calls : StartTask(c)
  \/ Tick
  \/ \E c \in Calls : SendRequest(c)
  \/ \E c \in Calls : \E reply \in HttpReplies : RequestSettles(c, reply)
  \/ \E c \in Calls : ReturnToCaller(c)

\* The calls of callLlm, with or without keys in the environment.
LlmSpec == LlmInit /\ [][LlmNext]_vars

\* ------------------------------------------------------- every provider

\* ProviderName.
ProviderNames == {"openai", "xai", "anthropic", "gemini"}

\* Lines 703 and 759: the message of the error for a response that is not
\* OK (the response's status and body follow it in the message).
RequestFailed(provider) ==
  IF provider = "anthropic" THEN "Anthropic request failed"
  ELSE "OpenAI-compatible request failed"

\* Lines 727 and 772: the message of the error for a response without text.
MissingContent(provider) ==
  IF provider = "anthropic" THEN "Anthropic response was missing text content."
  ELSE "OpenAI-compatible response was missing message content."

\* callOpenAiCompatible (openai, xai) and callAnthropic after their fetch:
\* the text of the reply, or the error thrown.
callProvider(provider, reply) ==
  CASE reply.kind = "ok" -> ProviderText
    [] reply.kind = "http" ->
         [NoResult EXCEPT
            !.error = [PlainError(RequestFailed(provider)) EXCEPT !.status = reply.status]]
    [] reply.kind = "timeout" ->
         [NoResult EXCEPT !.error = PlainError("The operation was aborted due to timeout")]
    [] reply.kind = "empty" ->
         [NoResult EXCEPT !.error = PlainError(MissingContent(provider))]

\* Two calls, each to any provider, every key set and a Gemini fallback
\* model configured.
ProviderInit ==
  /\ AdapterIdle /\ fallbackModels = <<"gemini-flash-latest">>
  /\ DefaultConfiguration
  /\ ExperimentIdle
  /\ backend = <<>>
  /\ request = Undefined
  /\ client = Undefined
  /\ \E provider \in [Calls -> ProviderNames] :
       llm = [env |-> [name \in ProviderNames |-> SetTo("key")],
              ALLOW_MOCK_RESPONSES |-> TRUE,
              input |-> [c \in Calls |->
                           LlmCallInput(provider[c], GEMINI_MODEL,
                                        <<Message("user", <<Run(FALSE, 30)>>)>>, "0.2",
                                        MAX_SINGLE_RESPONSE_TOKENS)],
              fetches |-> [c \in Calls |-> 0],
              result |-> [c \in Calls |-> NoResult]]

ProviderNext ==
  \/ \E c \in Calls : callLlm(c)
  \/ \E c \in Calls : \E reply \in HttpReplies :
       FetchSettles(c, callProvider(llm.input[c].provider, reply))
  \/ \E c \in Calls : StartTask(c)
  \/ Tick
  \/ \E c \in Calls : SendRequest(c)
  \/ \E c \in Calls : \E reply \in HttpReplies : RequestSettles(c, reply)
  \/ \E c \in Calls : ReturnToCaller(c)

\* callLlm with keys, whichever providers its calls go to.
ProviderSpec == ProviderInit /\ [][ProviderNext]_vars

\* ---------------------------------------------------------------- the page

\* useState(null) of `result`, and of `submittedRanking`.
NoRun == [runId |-> 0, responses |-> <<>>]

NoRanking == [submitted |-> FALSE, correctnessOrder |-> <<>>,
              confidenceScores |-> [id \in {} |-> 0]]

\* The Run the server answers with; runs are told apart by their runId.
ExperimentApiResponse(runId, blinded) == [runId |-> runId, responses |-> blinded]

\* Four condition results a server may have collected: an answer, a
\* failure, a debate with its transcript, another answer.
ServedResults ==
  <<SingleResult(1, TextOf("t1", 120)),
    buildFailedConditionResult(2, PlainError("Gemini response was missing text content.")),
    ConditionResultOf(ConditionIds[3], conditionLabels[3], TextOf("t2", 300),
      <<[round |-> 1, agentId |-> "lead_moderator", agentName |-> <<"Lead Moderator">>,
         provider |-> singleProvider, model |-> singleModel,
         content |-> TextOf("t1", 120)]>>),
    SingleResult(4, TextOf("t2", 300))>>

\* The responses the server may send: the results in the order they were
\* collected in, or in reverse.
ServedResponses ==
  {blindAndShuffle(ServedResults, [index \in 2..4 |-> index]),
   blindAndShuffle(ServedResults, [index \in 2..4 |-> 5 - index])}

\* The questions typed (the page starts with an empty one), the sliders
\* moved and the cards moved or dragged.
TypedQuestions == {Str(1, 20, 2)}

SliderInputs == {"Response A"} \X {80}

MovedIds == {"Response A"}

DropTargets == {"Response A", "Response C"}

BlindIds(run) == [k \in 1..Len(run.responses) |-> run.responses[k].blindId]

\* Array.prototype.indexOf, counted from 1 (0: not found).
IndexOf(list, id) ==
  IF \E k \in 1..Len(list) : list[k] = id
  THEN CHOOSE k \in 1..Len(list) : list[k] = id /\ \A j \in 1..k - 1 : list[j] # id
  ELSE 0

\* Lines 392-397.
makeDefaultConfidenceScores(blinded) ==
  [id \in {blinded[k].blindId : k \in 1..Len(blinded)} |-> 50]

\* Variant: the dragged id is inserted without being taken out first.
reorderList_NotRemoved(list, sourceId, targetId) ==
  LET sourceIndex == IndexOf(list, sourceId)
      targetIndex == IndexOf(list, targetId)
  IN  IF sourceIndex = 0 \/ targetIndex = 0 THEN list
      ELSE SubSeq(list, 1, targetIndex - 1) \o <<sourceId>>
             \o SubSeq(list, targetIndex, Len(list))

\* Lines 399-411.
reorderList(list, sourceId, targetId) ==
  LET sourceIndex == IndexOf(list, sourceId)
      targetIndex == IndexOf(list, targetId)
      without == SubSeq(list, 1, sourceIndex - 1) \o SubSeq(list, sourceIndex + 1, Len(list))
  IN  IF sourceIndex = 0 \/ targetIndex = 0 THEN list
      ELSE SubSeq(without, 1, targetIndex - 1) \o <<sourceId>>
             \o SubSeq(without, targetIndex, Len(without))

\* Lines 125-139: the updater of moveResponse.
Moved(order, id, direction) ==
  LET currentIndex == IndexOf(order, id)
      nextIndex == IF direction = "up" THEN currentIndex - 1 ELSE currentIndex + 1
  IN  IF currentIndex = 0 THEN order
      ELSE IF nextIndex < 1 \/ nextIndex > Len(order) THEN order
      ELSE [order EXCEPT ![currentIndex] = order[nextIndex],
                         ![nextIndex] = order[currentIndex]]

\* Lines 28-41.
canSubmitRanking ==
  /\ client.result # NoRun
  /\ LET ids == BlindIds(client.result)
         order == client.correctnessOrder
     IN  /\ Len(ids) = Len(order)
         /\ Cardinality({order[k] : k \in 1..Len(order)}) = Len(order)
         /\ \A k \in 1..Len(ids) : IndexOf(order, ids[k]) # 0
         /\ \A k \in 1..Len(ids) : ids[k] \in DOMAIN client.confidenceScores

\* The rest of the model stands still while the page acts.
PageOnly == UNCHANGED <<adapterVars, experimentVars, backend, request, llm>>

\* Line 176: the textarea's onChange.
setQuestion(question) ==
  /\ client.question # question
  /\ client' = [client EXCEPT !.question = question]
  /\ PageOnly

\* Lines 43-67: the form's onSubmit up to the fetch it awaits; the submit
\* button is disabled while loading (line 180).
handleRunExperiment ==
  /\ ~client.loading
  /\ client.sent < MaxRuns
  /\ LET cleared == [client EXCEPT
                       !.errorMessage = "", !.rankingError = "",
                       !.submittedRanking = NoRanking, !.rankedRun = 0,
                       !.revealSources = FALSE, !.showTranscripts = FALSE,
                       !.activeTranscriptId = "", !.draggingId = ""]
     IN  IF StrLength(StrTrim(client.question)) < 8
         THEN client' = [cleared EXCEPT
                           !.errorMessage = "Enter a fuller question (at least 8 characters)."]
         ELSE client' = [cleared EXCEPT !.loading = TRUE, !.sent = @ + 1]
  /\ PageOnly

\* Lines 69-78 and 82-84: the server answered with a Run.
ResponseArrives(blinded) ==
  /\ client.loading
  /\ client' = [client EXCEPT
                  !.result = ExperimentApiResponse(client.sent, blinded),
                  !.correctnessOrder = BlindIds(ExperimentApiResponse(client.sent, blinded)),
                  !.confidenceScores = makeDefaultConfidenceScores(blinded),
                  !.activeTranscriptId = blinded[1].blindId,
                  !.loading = FALSE]
  /\ PageOnly

\* Lines 71-73 and 79-84: the server answered with an error, or the fetch
\* failed.
ResponseFails(message) ==
  /\ client.loading
  /\ client' = [client EXCEPT
                  !.errorMessage = message, !.result = NoRun, !.loading = FALSE]
  /\ PageOnly

\* Lines 87-113: the ranking form's onSubmit; its button is disabled unless
\* canSubmitRanking (line 283).  rankedRun is not a state of the page: it
\* records which Run was on display when the ranking was saved.
handleRankingSubmit ==
  /\ client.result # NoRun
  /\ canSubmitRanking
  /\ LET ids == BlindIds(client.result)
         order == client.correctnessOrder
     IN  IF \/ Len(ids) # Len(order)
            \/ Cardinality({order[k] : k \in 1..Len(order)}) # Len(order)
         THEN client' = [client EXCEPT
                           !.rankingError =
                             "Arrange all responses into a unique correctness order."]
         ELSE IF \E k \in 1..Len(ids) : ids[k] \notin DOMAIN client.confidenceScores
         THEN client' = [client EXCEPT
                           !.rankingError = "Set a confidence score for every response."]
         ELSE client' = [client EXCEPT
                           !.rankingError = "",
                           !.submittedRanking =
                             [submitted |-> TRUE, correctnessOrder |-> order,
                              confidenceScores |-> client.confidenceScores],
                           !.rankedRun = client.result.runId]
  /\ PageOnly

\* Line 235.
onDragStart(blindId) ==
  /\ client.result # NoRun
  /\ client.draggingId # blindId
  /\ client' = [client EXCEPT !.draggingId = blindId]
  /\ PageOnly

\* Line 236.
onDragEnd ==
  /\ client.result # NoRun
  /\ client.draggingId # ""
  /\ client' = [client EXCEPT !.draggingId = ""]
  /\ PageOnly

\* Lines 115-122.
handleDrop(targetId) ==
  /\ client.result # NoRun
  /\ client.draggingId # "" /\ client.draggingId # targetId
  /\ client' = [client EXCEPT
                  !.correctnessOrder = reorderList(@, client.draggingId, targetId),
                  !.draggingId = ""]
  /\ PageOnly

\* Variant: the cards of the Run itself are moved.
moveResponse_OnResult(id, direction) ==
  /\ client.result # NoRun
  /\ LET index == IndexOf(client.correctnessOrder, id)
     IN  /\ index # 0
         /\ direction = "up" => index # 1
         /\ direction = "down" => index # Len(client.correctnessOrder)
         /\ LET cards == client.result.responses
                nextIndex == IF direction = "up" THEN index - 1 ELSE index + 1
            IN  client' = [client EXCEPT
                             !.result.responses =
                               [cards EXCEPT ![index] = cards[nextIndex],
                                             ![nextIndex] = cards[index]]]
  /\ PageOnly

\* Lines 124-140; the buttons are disabled at the ends of the list (lines
\* 264-270).
moveResponse(id, direction) ==
  /\ client.result # NoRun
  /\ LET index == IndexOf(client.correctnessOrder, id)
     IN  /\ index # 0
         /\ direction = "up" => index # 1
         /\ direction = "down" => index # Len(client.correctnessOrder)
  /\ client' = [client EXCEPT !.correctnessOrder = Moved(@, id, direction)]
  /\ PageOnly

\* Lines 255-260: a slider's onChange.
setConfidence(blindId, value) ==
  /\ client.result # NoRun
  /\ IndexOf(client.correctnessOrder, blindId) # 0
  /\ client.confidenceScores[blindId] # value
  /\ client' = [client EXCEPT !.confidenceScores[blindId] = value]
  /\ PageOnly

\* Lines 142-158; the button is disabled until a ranking is saved (line
\* 286).  `exported` is the payload of the file last written.
exportRunData ==
  /\ client.result # NoRun
  /\ client.submittedRanking.submitted
  /\ client' = [client EXCEPT
                  !.exported = [run |-> client.result, ranking |-> client.submittedRanking]]
  /\ PageOnly

\* Line 289.
toggleShowTranscripts ==
  /\ client.result # NoRun
  /\ client.submittedRanking.submitted
  /\ client' = [client EXCEPT !.showTranscripts = ~@]
  /\ PageOnly

\* Line 292.
toggleRevealSources ==
  /\ client.result # NoRun
  /\ client.submittedRanking.submitted
  /\ client' = [client EXCEPT !.revealSources = ~@]
  /\ PageOnly

\* Line 213: the source chip of every card is rendered.
LabelsShown == client.result # NoRun /\ client.revealSources

\* Lines 302-308: the TranscriptViewer is rendered.
TranscriptsShown ==
  /\ client.result # NoRun
  /\ client.submittedRanking.submitted
  /\ client.showTranscripts

\* Lines 306 and 341: a tab of the TranscriptViewer is clicked.
onTranscriptChange(blindId) ==
  /\ TranscriptsShown
  /\ client.activeTranscriptId # blindId
  /\ client' = [client EXCEPT !.activeTranscriptId = blindId]
  /\ PageOnly

\* Lines 15-26.
ClientInit ==
  /\ AdapterIdle /\ fallbackModels = <<>>
  /\ DefaultConfiguration
  /\ ExperimentIdle
  /\ backend = <<>>
  /\ request = Undefined
  /\ llm = Undefined
  /\ client = [question |-> Str(0, 0, 0), loading |-> FALSE, errorMessage |-> "",
               result |-> NoRun, correctnessOrder |-> <<>>,
               confidenceScores |-> [id \in {} |-> 0], rankingError |-> "",
               submittedRanking |-> NoRanking, revealSources |-> FALSE,
               showTranscripts |-> FALSE, activeTranscriptId |-> "",
               draggingId |-> "", sent |-> 0, rankedRun |-> 0,
               exported |-> [run |-> NoRun, ranking |-> NoRanking]]

ClientNext ==
  \/ \E question \in TypedQuestions : setQuestion(question)
  \/ handleRunExperiment
  \/ \E blinded \in ServedResponses : ResponseArrives(blinded)
  \/ ResponseFails("Question is too long for this MVP. Keep it under 1500 characters.")
  \/ handleRankingSubmit
  \/ \E blindId \in MovedIds : onDragStart(blindId)
  \/ onDragEnd
  \/ \E targetId \in DropTargets : handleDrop(targetId)
  \/ \E id \in MovedIds : \E direction \in {"up", "down"} : moveResponse(id, direction)
  \/ \E input \in SliderInputs : setConfidence(input[1], input[2])
  \/ exportRunData
  \/ toggleShowTranscripts
  \/ toggleRevealSources
  \/ onTranscriptChange("Response B")

\* The page, from its first render, with a server that answers each
\* question with a Run or with an error.
ClientSpec == ClientInit /\ [][ClientNext]_vars

\* The cards of the arrange list: any of them is dragged, dropped on or
\* moved.
ArrangeCards == {labels[k] : k \in 1..Len(labels)}

ArrangeNext ==
  \/ \E question \in TypedQuestions : setQuestion(question)
  \/ handleRunExperiment
  \/ \E blinded \in ServedResponses : ResponseArrives(blinded)
  \/ ResponseFails("Question is too long for this MVP. Keep it under 1500 characters.")
  \/ \E blindId \in ArrangeCards : onDragStart(blindId)
  \/ onDragEnd
  \/ \E targetId \in ArrangeCards : handleDrop(targetId)
  \/ \E id \in ArrangeCards : \E direction \in {"up", "down"} : moveResponse(id, direction)

\* The page with its arrange list, every card of which can be dragged,
\* dropped on and moved.
ArrangeSpec == ClientInit /\ [][ArrangeNext]_vars

\* ------------------------------------------------------------- properties

\* The task of a call has begun (its first sleep has started).
Started(c) == pc[c] \notin {"idle", "queued"}

\* Call c goes from sleeping to having a request in flight.
Fires(c) == pc[c] = "sleeping" /\ pc'[c] = "inflight"

\* Kinds of failure, read off the <<status, body status>> of a reply.
NotFoundCause(f) == f[1] = 404

QuotaCause(f) == f[1] = 429 \/ f[2] = "RESOURCE_EXHAUSTED"

RetryableCause(f) == f[1] = 429 \/ f[1] >= 500

\* C1: calls begin in the order they were enqueued: a call has begun its
\* first sleep or request only if every call enqueued before it has settled,
\* with a text or with an error.
C1_FifoStart ==
  \A c \in Calls : \A d \in Calls : (d < c /\ Started(c)) => Settled(d)

\* Call 2 has begun right after call 1 rejected.
C1_Witness == pc[1] = "rejected" /\ pc[2] = "sleeping"

\* C2: at most one Gemini HTTP request is in flight at any time, and none
\* is in flight while another call sleeps in a retry backoff.
C2_OneInFlight ==
  /\ Cardinality({c \in Calls : pc[c] = "inflight"}) <= 1
  /\ \A c \in Calls : \A d \in Calls :
       (c # d /\ pc[c] = "sleeping" /\ attempt[c] > 0) => pc[d] # "inflight"

\* A retry is in flight, its backoff slept through, while another call has
\* been waiting in the queue.
C2_Witness ==
  \E c \in Calls : \E d \in Calls :
    pc[c] = "inflight" /\ attempt[c] > 0 /\ pc[d] = "queued"

\* C3: a request fires only when at least GEMINI_REQUEST_SPACING_MS have
\* passed since the last request settled, and the first request of a call
\* only after that long since the call left the queue.
C3_Spacing ==
  [][\A c \in Calls :
       Fires(c) =>
         /\ sinceSettle = -1 \/ sinceSettle >= GEMINI_REQUEST_SPACING_MS
         /\ (modelIndex[c] = 1 /\ attempt[c] = 0)
              => slept[c] >= GEMINI_REQUEST_SPACING_MS]_vars

\* The first request of call 2 is in flight, fired as early as the spacing
\* allows after the last request of call 1 failed.
C3_Witness ==
  /\ pc[1] = "thrown"
  /\ pc[2] = "inflight" /\ sent[2][1] = 1
  /\ sinceSettle >= GEMINI_REQUEST_SPACING_MS
  /\ sinceSettle < GEMINI_REQUEST_SPACING_MS + TickMs

\* C4: a candidate never gets more than GEMINI_MAX_RETRIES + 1 requests in
\* one call, and attempts on it end with a retryable failure (429 or 5xx)
\* only when all GEMINI_MAX_RETRIES + 1 requests have been sent.
C4_RetryBudget ==
  \A c \in Calls : \A i \in 1..NoCandidates :
    LET f == failures[c][i]
    IN  /\ sent[c][i] <= GEMINI_MAX_RETRIES + 1
        /\ (f # <<>> /\ RetryableCause(f[Len(f)])
              /\ (modelIndex[c] > i \/ pc[c] = "rejected"))
             => sent[c][i] = GEMINI_MAX_RETRIES + 1

\* A call rejected after three 429 answers from its only candidate.
C4_Witness ==
  \E c \in Calls :
    /\ pc[c] = "rejected" /\ NoCandidates = 1
    /\ sent[c][1] = GEMINI_MAX_RETRIES + 1
    /\ \A k \in 1..Len(failures[c][1]) : failures[c][1][k][1] = 429

\* What the server's RetryInfo means, in milliseconds (-1: no usable hint).
ServerHintMs(error) ==
  LET d == FindRetryInfo(error.details).retryDelay
  IN  CASE d = <<"5", "s">> -> 5000
        [] d = <<"1", ".", "5", "s">> -> 1500
        [] OTHER -> -1

\* The delay the retry number k is to wait after `error`.
RequiredRetryDelay(error, k) ==
  IF ServerHintMs(error) >= 0
  THEN Max(ServerHintMs(error), GEMINI_REQUEST_SPACING_MS)
  ELSE Max(GEMINI_RETRY_BACKOFF_MS * 2 ^ (k - 1), GEMINI_REQUEST_SPACING_MS)

\* C5: the sleep before retry k is max(hint, spacing) when the failure
\* carried a retry hint and max(backoff * 2^(k-1), spacing) otherwise, and
\* the retry fires no earlier than that after the failure.
C5_RetryDelay ==
  [][\A c \in Calls :
       /\ (pc[c] = "inflight" /\ pc'[c] = "sleeping" /\ attempt'[c] >= 1)
            => timer'[c] = RequiredRetryDelay(currentError'[c], attempt'[c])
       /\ (Fires(c) /\ attempt[c] >= 1)
            => /\ slept[c] >= RequiredRetryDelay(currentError[c], attempt[c])
               /\ sinceSettle >= RequiredRetryDelay(currentError[c], attempt[c])]_vars

\* A retry is in flight that waited out the 5-second hint of a 429.
C5_Witness ==
  \E c \in Calls :
    /\ pc[c] = "inflight" /\ attempt[c] = 1
    /\ currentError[c].status = 429 /\ ServerHintMs(currentError[c]) = 5000
    /\ sinceSettle >= 5000

\* The failures of candidate i of call c so far.
FirstAnswerNotFound(c, i) ==
  failures[c][i] # <<>> /\ NotFoundCause(failures[c][i][1])

AllQuota(f) == f # <<>> /\ \A k \in 1..Len(f) : QuotaCause(f[k])

All429(f) == f # <<>> /\ \A k \in 1..Len(f) : f[k][1] = 429

LastOf(f) == f[Len(f)]

CappedNow(c) ==
  /\ pc[c] = "inflight"
  /\ LET f == failures'[c][modelIndex[c]]
     IN  /\ Len(f) = Len(failures[c][modelIndex[c]]) + 1
         /\ AllQuota(f)
         /\ Len(f) = GEMINI_MAX_RETRIES + 1 \/ ~RetryableCause(LastOf(f))

\* C8: when a model is capped and a fallback model is configured after it,
\* the same call goes on to the next model, and a call that succeeds
\* returns the text of the model that answered.
C8_CappedModelFallsBack ==
  /\ [][\A c \in Calls :
          (CappedNow(c) /\ modelIndex[c] < NoCandidates)
            => /\ pc'[c] = "sleeping"
               /\ modelIndex'[c] = modelIndex[c] + 1
               /\ sent'[c][modelIndex'[c]] = 0]_vars
  /\ [](\A c \in Calls :
          pc[c] = "resolved"
            => /\ outcome[c] = Text(modelCandidates[modelIndex[c]])
               /\ sent[c][modelIndex[c]] = Len(failures[c][modelIndex[c]]) + 1)

\* The preferred model was capped by three 429s and the fallback answered.
C8_Witness ==
  \E c \in Calls :
    /\ pc[c] = "resolved" /\ modelIndex[c] = 2
    /\ All429(failures[c][1])
    /\ Len(failures[c][1]) = GEMINI_MAX_RETRIES + 1
    /\ outcome[c] = Text("gemini-flash-latest")

\* The candidates of call c that have failed at least once.
FailedCandidates(c) == {i \in 1..NoCandidates : failures[c][i] # <<>>}

\* C9 as stated: the all-404 error is raised only if no attempt on any
\* candidate failed with a non-404 cause; otherwise a non-404 cause is raised.
C9_AnyNon404Preferred ==
  \A c \in Calls :
    pc[c] = "rejected" =>
      LET anyOther == \E i \in 1..NoCandidates : \E k \in 1..Len(failures[c][i]) :
                        ~NotFoundCause(failures[c][i][k])
      IN  /\ outcome[c] = AllModels404Error => ~anyOther
          /\ anyOther => outcome[c] # AllModels404Error

\* C9, amended: the all-404 error is raised exactly when the last failure
\* of every candidate that was tried is a 404; when the attempts on some
\* candidate ended with another cause, the error raised is the last failure
\* of the latest such candidate.
C9_LastFailurePreferred ==
  \A c \in Calls :
    pc[c] = "rejected" =>
      LET others == {i \in FailedCandidates(c) : ~NotFoundCause(LastOf(failures[c][i]))}
          latest == CHOOSE i \in others : \A j \in others : j <= i
      IN  IF others = {} THEN outcome[c] = AllModels404Error
          ELSE /\ outcome[c] # AllModels404Error
               /\ outcome[c].type \in {"GeminiCallError", "Error"}
               /\ <<outcome[c].status, outcome[c].bodyStatus>> = LastOf(failures[c][latest])
               /\ isGeminiCallError(outcome[c]) => outcome[c].model = modelCandidates[latest]

\* The preferred model was capped by 429s, the fallback answered 404, and
\* the 429 is the error raised.
C9_Witness ==
  \E c \in Calls :
    /\ pc[c] = "rejected" /\ modelIndex[c] = 2
    /\ All429(failures[c][1])
    /\ failures[c][2] = << <<404, "NOT_FOUND">> >>
    /\ outcome[c].status = 429 /\ outcome[c].model = GEMINI_MODEL

RECURSIVE SumTo(_, _)
SumTo(counts, n) == IF n = 0 THEN 0 ELSE counts[n] + SumTo(counts, n - 1)

\* The requests call c has sent so far.
TotalSent(c) == SumTo(sent[c], NoCandidates)

\* C10: a call sends at most |candidates| * (GEMINI_MAX_RETRIES + 1)
\* requests; every request but the last one has failed, so none follows a
\* success; a settled call has exactly one outcome, a text or an error,
\* which never changes, and it sends nothing more; and every call that has
\* started settles.
C10_OneOutcome ==
  /\ [](\A c \in Calls :
          /\ TotalSent(c) <= NoCandidates * (GEMINI_MAX_RETRIES + 1)
          /\ \A i \in 1..NoCandidates :
               sent[c][i] - Len(failures[c][i]) =
                 IF pc[c] \in {"inflight", "resolved"} /\ i = modelIndex[c] THEN 1 ELSE 0
          /\ pc[c] = "resolved" => outcome[c].type = "text"
          /\ pc[c] = "rejected" => outcome[c].type \in {"GeminiCallError", "Error"}
          /\ pc[c] \notin {"resolved", "rejected"} => outcome[c] = Undefined)
  /\ [][\A c \in Calls :
          Settled(c) =>
            /\ Settled(c)'
            /\ sent'[c] = sent[c] \/ sent'[c] = Zeros
            /\ pc'[c] = pc[c] => outcome'[c] = outcome[c]]_vars
  /\ \A c \in Calls : Started(c) ~> Settled(c)

\* A call rejected after using every attempt on every candidate.
C10_Witness ==
  \E c \in Calls :
    /\ pc[c] = "rejected" /\ NoCandidates = 2
    /\ TotalSent(c) = NoCandidates * (GEMINI_MAX_RETRIES + 1)

\* C11: a failure that is not retryable (anything but a 429 or a 5xx answer:
\* a 404, another 4xx, a timeout, a response without text) is the last
\* failure of its model in the call: no request is sent to that model after
\* it, and no other candidate of the call is that same model.
C11_NonRetryableEndsModel ==
  /\ \A i \in 1..NoCandidates : \A j \in 1..NoCandidates :
       i # j => modelCandidates[i] # modelCandidates[j]
  /\ \A c \in Calls : \A i \in 1..NoCandidates :
       LET f == failures[c][i]
       IN  \A k \in 1..Len(f) :
             ~RetryableCause(f[k])
               => /\ k = Len(f)
                  /\ sent[c][i] = Len(f)
                  /\ pc[c] \in {"sleeping", "inflight"} => modelIndex[c] > i

\* A call rejected by a timeout of the retry that followed a 429: one
\* attempt of the first model was left unused, the fallback was not tried.
C11_Witness ==
  \E c \in Calls :
    /\ pc[c] = "rejected" /\ NoCandidates = 2
    /\ Len(failures[c][1]) = 2
    /\ failures[c][1][1][1] = 429 /\ failures[c][1][2] = <<0, "">>
    /\ sent[c][1] = 2 /\ sent[c][2] = 0

\* The number of rounds and of agents of the debate of condition c.
RoundsOf(c) == debate[c].rounds

AgentsOf(c) == Len(agents[c])

\* C12: a debate that completes with R rounds and A agents returns a
\* transcript of exactly R*A + 1 turns: A turns for each round 1..R, one
\* per agent in roster order, the rounds in order, and last the one
\* synthesis turn, whose round is R + 1.
C12_TranscriptShape ==
  \A c \in DebateConditions :
    cpc[c] = "fulfilled" =>
      LET t == settledWith[c].transcript
          R == RoundsOf(c)
          A == AgentsOf(c)
      IN  /\ R >= 1 /\ A >= 1
          /\ Len(t) = R * A + 1
          /\ \A r \in 1..R : \A i \in 1..A :
               /\ t[(r - 1) * A + i].round = r
               /\ t[(r - 1) * A + i].agentId = agents[c][i].id
          /\ t[R * A + 1].round = R + 1

\* A debate of two rounds and two agents has returned its five turns.
C12_Witness ==
  \E c \in DebateConditions :
    /\ cpc[c] = "fulfilled"
    /\ RoundsOf(c) = 2 /\ AgentsOf(c) = 2
    /\ Len(settledWith[c].transcript) = 5

\* The agents of a roster other than the one with `id`, in roster order.
OthersOf(roster, id) ==
  LET Other(agent) == agent.id # id
  IN  SelectSeq(roster, Other)

\* What the agent with `id` answered in `round` of the debate of c: the
\* assistant message that follows its prompt of that round.
SaidIn(c, id, round) == debate[c].histories[id][2 * round + 1]

\* The prompt the agent with `id` was given for `round`.
PromptOf(c, id, round) == debate[c].histories[id][2 * round]

C14_OneCallAtATime ==
  \A c \in DebateConditions :
    /\ Len(pending[c]) <= 1
    /\ debate[c].stage = "round" =>
         LET r == debate[c].round
             i == debate[c].agentIndex
             A == AgentsOf(c)
             t == debate[c].transcript
             done == debate[c].contributions
         IN  /\ r \in 1..RoundsOf(c) /\ i \in 1..A
             /\ Len(pending[c]) = 1
             /\ pending[c][1].messages = debate[c].histories[agents[c][i].id]
             /\ pending[c][1].model = agents[c][i].model
             /\ issued[c] = (r - 1) * A + i
             /\ Len(t) + Len(done) = issued[c] - 1
             /\ Len(done) = i - 1
             /\ \A j \in 1..i - 1 :
                  done[j].round = r /\ done[j].agentId = agents[c][j].id
             /\ Len(t) = (r - 1) * A
             /\ \A q \in 1..r - 1 : \A j \in 1..A :
                  /\ t[(q - 1) * A + j].round = q
                  /\ t[(q - 1) * A + j].agentId = agents[c][j].id

\* The first call of round 2 is outstanding: both calls of round 1 have
\* returned and their turns are in the transcript.
C14_Witness ==
  \E c \in DebateConditions :
    /\ AgentsOf(c) = 2 /\ Len(pending[c]) = 1
    /\ debate[c].stage = "round" /\ debate[c].round = 2 /\ debate[c].agentIndex = 1
    /\ Len(debate[c].transcript) = 2
    /\ issued[c] = 3

\* The agent that is to synthesize: the first one of the roster flagged as
\* moderator, the first agent when none is flagged.
FirstModerator(roster) ==
  LET flagged == {k \in 1..Len(roster) : roster[k].isModerator}
  IN  IF flagged = {} THEN 1
      ELSE CHOOSE k \in flagged : \A j \in flagged : k <= j

\* C15: the synthesis call is made only when all R*A round calls have
\* returned; it is made for the first moderator-flagged agent (the first
\* agent when none is flagged) with that agent's own history (its system
\* message, and for each round its prompt and its answer) plus the one
\* synthesis prompt; and the text it returns is the debate's answer and the
\* content of the last turn, a turn of that agent at round R + 1.
C15_Synthesis ==
  \A c \in DebateConditions :
    LET R == RoundsOf(c)
        A == AgentsOf(c)
        mi == FirstModerator(agents[c])
        m == agents[c][mi]
        t == debate[c].transcript
    IN  /\ debate[c].stage = "synthesis" =>
             /\ issued[c] = R * A + 1
             /\ Len(t) = R * A
             /\ Len(pending[c]) = 1
             /\ pending[c][1].provider = m.provider /\ pending[c][1].model = m.model
             /\ pending[c][1].messages = debate[c].histories[m.id]
             /\ LET h == pending[c][1].messages
                IN  /\ Len(h) = 2 * R + 2
                    /\ h[1].role = "system" /\ h[1].content.persona = m.id
                    /\ \A r \in 1..R :
                         /\ h[2 * r].role = "user" /\ h[2 * r].content.round = r
                         /\ h[2 * r + 1].role = "assistant"
                         /\ h[2 * r + 1].content = t[(r - 1) * A + mi].content
                    /\ h[2 * R + 2].role = "user"
                    /\ h[2 * R + 2].content.kind = "moderator"
        /\ cpc[c] = "fulfilled" =>
             /\ issued[c] = R * A + 1
             /\ settledWith[c].answer \in BackendTexts
             /\ settledWith[c].answer = t[Len(t)].content
             /\ settledWith[c].transcript = t
             /\ t[Len(t)].agentId = m.id
             /\ t[Len(t)].round = R + 1

\* A debate of two agents of which only the second is flagged as moderator
\* has returned: the last turn is the second agent's.
C15_Witness ==
  \E c \in DebateConditions :
    /\ cpc[c] = "fulfilled" /\ AgentsOf(c) = 2
    /\ ~agents[c][1].isModerator /\ agents[c][2].isModerator
    /\ settledWith[c].transcript[Len(settledWith[c].transcript)].agentId = agents[c][2].id

\* The positions at which the returned Run shows condition c.
PositionsOf(c) ==
  {i \in 1..Len(responses) :
     responses[i].sourceConditionId =
       <<"single_plain", "multi_mixed_models", "multi_same_model_roles",
         "single_role">>[c]}

Rejected == {c \in Conditions : cpc[c] = "rejected"}

\* C16: every Run that runExperiment returns has exactly 4 blinded
\* responses, and their blind ids are "Response A", "Response B",
\* "Response C", "Response D" in this order of position, whichever
\* conditions failed and however the results were shuffled.
C16_BlindIds ==
  /\ epc # "returned" => responses = <<>>
  /\ epc = "returned" =>
       /\ Len(responses) = 4
       /\ \A i \in 1..4 :
            responses[i].blindId =
              <<"Response A", "Response B", "Response C", "Response D">>[i]

\* A Run was returned in which the first condition failed, the second did
\* not, and the shuffle put the fourth condition first.
C16_Witness ==
  /\ epc = "returned"
  /\ cpc[1] = "rejected" /\ cpc[2] = "fulfilled"
  /\ PositionsOf(4) = {1}

\* C17: in every returned Run each of the four condition ids single_plain,
\* multi_mixed_models, multi_same_model_roles and single_role is the source
\* of exactly one of the four responses, whichever conditions failed, in
\* serial and in concurrent mode.
C17_ConditionsOnce ==
  epc = "returned" =>
    /\ Len(responses) = 4
    /\ \A c \in Conditions : Cardinality(PositionsOf(c)) = 1

\* A Run returned in concurrent mode in which both debates failed and the
\* responses came out in reverse order.
C17_Witness ==
  /\ epc = "returned" /\ ~serialize
  /\ Rejected = {2, 3}
  /\ \A c \in Conditions : PositionsOf(c) = {5 - c}

\* The response of the returned Run that shows condition c.
ResponseOf(c) == responses[CHOOSE i \in 1..Len(responses) : i \in PositionsOf(c)]

\* The answer of a response says that its condition failed.
FailureMarked(response) == response.answer.body = "This condition failed to run."

\* What is left to do of a submission: its return, the results still to be
\* collected one by one in serial mode, and for each unsettled condition its
\* settling and the calls it may still make.
Remaining ==
  LET calls(c) == IF c \in DebateConditions
                  THEN Max(1, debateRounds) * AgentsOf(c) + 1 ELSE 1
      left(c) == IF SettledCondition(c) THEN 0 ELSE 1 + calls(c) - issued[c]
  IN  IF epc = "returned" THEN 0
      ELSE 1 + (4 - Len(results)) + left(1) + left(2) + left(3) + left(4)

\* C18: whichever of the four runners throw, runExperiment completes and
\* returns 4 responses.  A condition that threw is shown with the
\* failure-marked answer, an empty transcript and the fallback identity of
\* its own slot; a condition that did not was run to completion and is
\* shown with its own label, answer and transcript; so exactly as many
\* responses are failure placeholders as runners threw.  A submission under
\* way is never stuck and every step uses up some of what is left to do.
C18_FailureIsolation ==
  /\ [](epc = "returned" =>
          /\ Len(responses) = 4
          /\ \A c \in Conditions :
               /\ SettledCondition(c)
               /\ PositionsOf(c) # {}
               /\ cpc[c] = "rejected" =>
                    /\ FailureMarked(ResponseOf(c))
                    /\ ResponseOf(c).transcript = <<>>
                    /\ ResponseOf(c).sourceConditionLabel =
                         <<"Single model (first attempt)",
                           "4-agent mixed-model debate",
                           "4 same-model agents with distinct roles",
                           "Single model with role prompt">>[c]
               /\ cpc[c] = "fulfilled" =>
                    /\ ~FailureMarked(ResponseOf(c))
                    /\ ResponseOf(c).answer = settledWith[c].answer
                    /\ ResponseOf(c).answer \in BackendTexts
                    /\ ResponseOf(c).transcript = settledWith[c].transcript
                    /\ ResponseOf(c).transcript # <<>>
                    /\ ResponseOf(c).sourceConditionLabel = conditionLabels[c]
          /\ Cardinality({i \in 1..4 : /\ FailureMarked(responses[i])
                                        /\ responses[i].transcript = <<>>})
               = Cardinality(Rejected))
  /\ [](epc = "running" => ENABLED ExperimentNext)
  /\ [][Remaining' < Remaining /\ Remaining' >= 0]_vars

\* A Run was returned after exactly the second runner threw, the other
\* three results shown out of their order.
C18_Witness ==
  /\ epc = "returned"
  /\ Rejected = {2}
  /\ FailureMarked(ResponseOf(2))
  /\ PositionsOf(2) = {4} /\ PositionsOf(1) = {3}

\* The messages of the errors a runner may fail with.
ThrownMessages == {error.message : error \in BackendErrors}

Active == {c \in Conditions : cpc[c] = "awaiting"}

\* C20: in serial mode at most one condition is active at any time and a
\* condition has made a backend call only if the condition before it has
\* settled; when the condition the loop waits for has failed, the loop's
\* next step is there to be taken and invokes the next runner, which makes
\* its first call; and a Run is returned only after all four conditions
\* were started.
C20_SerialMode ==
  /\ [](serialize =>
          /\ Cardinality(Active) <= 1
          /\ \A c \in Conditions : Len(pending[c]) <= 1
          /\ \A c \in 1..3 :
               (issued[c + 1] > 0 \/ cpc[c + 1] # "idle") => SettledCondition(c)
          /\ epc = "returned" => \A c \in Conditions : issued[c] >= 1)
  /\ [](IF serialize /\ epc = "running" /\ current \in Conditions
        THEN SettledCondition(current) => ENABLED runConditionsSequentially
        ELSE TRUE)
  /\ [][IF serialize /\ epc = "running" /\ current \in 1..3
        THEN cpc[current] = "rejected" =>
               /\ current' = current + 1
               /\ cpc'[current + 1] = "awaiting"
               /\ issued[current + 1] = 0 /\ issued'[current + 1] = 1
        ELSE TRUE]_vars

\* In serial mode the second condition is under way after the first one
\* failed, and the last two have not begun.
C20_Witness ==
  /\ serialize /\ epc = "running"
  /\ cpc[1] = "rejected" /\ cpc[2] = "awaiting" /\ issued[2] >= 2
  /\ cpc[3] = "idle" /\ cpc[4] = "idle"

\* The backend calls that are outstanding, over all conditions.
Outstanding == SumTo([c \in Conditions |-> Len(pending[c])], Len(ConditionIds))

\* C21: in concurrent mode the step that starts the run invokes all four
\* runners, each of which makes its first call, before anything is awaited;
\* a step in which one condition rejects leaves every other condition as it
\* was, and a condition that is still awaited can go on receiving its reply
\* whatever the others have done; every condition has at most one call
\* outstanding, hence at most four overall; and the list is collected only
\* when all four have settled.
C21_ConcurrentMode ==
  /\ [](~serialize =>
          /\ epc # "idle" => \A c \in Conditions : cpc[c] # "idle" /\ issued[c] >= 1
          /\ \A c \in Conditions :
               /\ Len(pending[c]) <= 1
               /\ Len(pending[c]) = 1 <=> cpc[c] = "awaiting"
          /\ Outstanding <= Len(ConditionIds)
          /\ epc = "returned" => \A c \in Conditions : SettledCondition(c))
  /\ [](~serialize =>
          \A c \in Conditions :
            cpc[c] = "awaiting" =>
              \A content \in BackendTexts : ENABLED BackendReturns(c, content))
  /\ [][~serialize =>
          /\ (epc = "idle" /\ epc' = "running") =>
               \A c \in Conditions :
                 cpc'[c] = "awaiting" /\ issued'[c] = 1 /\ Len(pending'[c]) = 1
          /\ \A c \in Conditions :
               (cpc[c] = "awaiting" /\ cpc'[c] = "rejected") =>
                 \A d \in Conditions \ {c} :
                   /\ cpc'[d] = cpc[d] /\ pending'[d] = pending[d]
                   /\ debate'[d] = debate[d] /\ issued'[d] = issued[d]
                   /\ settledWith'[d] = settledWith[d]]_vars

\* In concurrent mode one condition has rejected while the three others
\* each have a call outstanding, a debate being at a later call already.
C21_Witness ==
  /\ ~serialize /\ epc = "running"
  /\ cpc[2] = "rejected"
  /\ cpc[1] = "awaiting" /\ cpc[4] = "awaiting"
  /\ cpc[3] = "awaiting" /\ issued[3] >= 2
  /\ Outstanding = 3

\* What the runner of a debate-backed condition comes to when it runs from
\* `frame` with nothing else going on.
RECURSIVE RunAlone(_, _)
RunAlone(c, frame) ==
  LET answer == backend[RequestKind(AwaitedCall(frame, agents[c]))]
  IN  IF answer.error # Undefined
      THEN buildFailedConditionResult(c, answer.error)
      ELSE LET next == AfterReply(frame, agents[c], answer.text)
           IN  IF next.stage = "done" THEN DebateResult(c, next)
               ELSE RunAlone(c, next)

\* The result of condition c when it is the only one that runs.
ConditionAlone(c) ==
  IF c \in DebateConditions THEN RunAlone(c, StartedFrame(c))
  ELSE LET answer == backend[RequestKind(FirstCall(c))]
       IN  IF answer.error # Undefined
           THEN buildFailedConditionResult(c, answer.error)
           ELSE SingleResult(c, answer.text)

\* C22: with backends that answer each request by what is asked, the list
\* of condition results handed to blindAndShuffle is in either mode, and
\* however the concurrent conditions interleave, the list of what each
\* condition comes to when it runs alone: four entries, the same condition
\* id, label, answer and transcript at each index.
C22_ModesAgree ==
  /\ \A i \in 1..Len(results) :
       /\ results[i] = ConditionAlone(i)
       /\ results[i].conditionId = ConditionIds[i]
  /\ epc = "returned" => Len(results) = Len(ConditionIds)
  /\ ~serialize /\ epc = "running" => results = <<>>

\* Concurrent mode has returned a run in which a debate went through its
\* calls while the single-call conditions failed.
C22_Witness ==
  /\ ~serialize /\ epc = "returned"
  /\ results[1].answer.body = "This condition failed to run."
  /\ Len(results[2].transcript) = Len(agents[2]) + 1
  /\ results[3].answer.body = "t2"

\* The order of the condition ids in the responses that blindAndShuffle
\* makes of `list` under the swap indices `swapIndex`.
OrderingOf(list, swapIndex) ==
  LET blinded == blindAndShuffle(list, swapIndex)
  IN  [k \in 1..Len(blinded) |-> blinded[k].sourceConditionId]

\* The orderings of the four condition ids.
Orderings ==
  {order \in [1..Len(ConditionIds) -> {ConditionIds[c] : c \in Conditions}] :
     \A i, j \in 1..Len(ConditionIds) : order[i] = order[j] => i = j}

\* C23: for the four condition results of a submission, the 4*3*2 = 24
\* sequences of swap indices give 24 different orderings, which are all the
\* 4! orderings there are, so that each ordering comes from exactly one
\* sequence; and every condition can get every blind label, wherever it
\* stood before the shuffle.
C23_ShuffleUniform ==
  Len(results) = Len(ConditionIds) =>
    LET choices == SwapChoices(Len(results))
    IN  /\ Cardinality(choices) = 24
        /\ Cardinality(Orderings) = 24
        /\ {OrderingOf(results, swapIndex) : swapIndex \in choices} = Orderings
        /\ \A s, t \in choices :
             OrderingOf(results, s) = OrderingOf(results, t) => s = t
        /\ \A c \in Conditions : \A position \in 1..Len(labels) :
             \E swapIndex \in choices :
               LET blinded == blindAndShuffle(results, swapIndex)
               IN  /\ blinded[position].sourceConditionId = results[c].conditionId
                   /\ blinded[position].blindId = labels[position]
        /\ epc = "returned" =>
             \E swapIndex \in choices : responses = blindAndShuffle(results, swapIndex)

\* A returned Run in which the first condition is shown last and the last
\* one first, while the two debates kept their places.
C23_Witness ==
  /\ epc = "returned" /\ Len(results) = 4
  /\ PositionsOf(1) = {4} /\ PositionsOf(4) = {1}
  /\ PositionsOf(2) = {2} /\ PositionsOf(3) = {3}
  /\ responses[4].blindId = "Response D"

\* The question of the request is a string whose length after trimming is
\* below 8 or above 1500, or the body is JSON that does not fit the schema.
FailsValidation ==
  /\ request.body.json
  /\ \/ request.body.kind # "string"
     \/ request.body.question.core < 8
     \/ request.body.question.core > 1500

\* runExperiment was never invoked and no backend call was made.
NothingRun ==
  /\ epc = "idle"
  /\ \A c \in Conditions : cpc[c] = "idle" /\ issued[c] = 0 /\ pending[c] = <<>>

\* C24: a request that fails validation is answered with status 400 by the
\* handler's first step, and runExperiment is never invoked for it, so no
\* backend call is made; a request answered 400 is one that failed
\* validation; any other request is answered 200 with four blinded
\* responses, and its handling never comes to a halt before that, unless
\* the body was not JSON at all, which is answered 500.
C24_ValidationOnly ==
  /\ [](FailsValidation => NothingRun /\ request.status \in {0, 400})
  /\ [](request.status = 400 =>
          FailsValidation /\ request.error = safeParse(request.body).message)
  /\ [](request.status = 500 => ~request.body.json /\ NothingRun)
  /\ [](request.status = 200 =>
          /\ request.body.json /\ ~FailsValidation
          /\ Len(responses) = 4
          /\ \A c \in Conditions : Cardinality(PositionsOf(c)) = 1)
  /\ [](request.status \in {0, 200, 400, 500})
  /\ [](request.status = 0 => ENABLED RouteNext)
  /\ [][(FailsValidation /\ request.status = 0) => request'.status = 400]_vars
  /\ [][request.status # 0 => UNCHANGED vars]_vars

\* A question of seven characters wrapped in whitespace, ten characters as
\* it was sent, has been answered 400 with nothing run.
C24_Witness ==
  /\ request.body.question = Str(2, 7, 1)
  /\ request.status = 400
  /\ request.error = "Question must be at least 8 characters."
  /\ NothingRun

\* No API key exists for the provider call c is made to.
NoKey(c) == Falsy(getApiKey(llm.input[c].provider))

\* The last user message of the conversation of call c, if there is one.
LastUserMessage(c) ==
  LET messages == llm.input[c].messages
  IN  {messages[k].content : k \in {k \in 1..Len(messages) :
         /\ messages[k].role = "user"
         /\ \A j \in k + 1..Len(messages) : messages[j].role # "user"}}

\* The length of a text once each run of whitespace counts for one space.
RECURSIVE CondensedLength(_)
CondensedLength(runs) ==
  IF runs = <<>> THEN 0
  ELSE (IF Head(runs).ws THEN 1 ELSE Head(runs).n) + CondensedLength(Tail(runs))

\* `excerpt` is the beginning of `text`, whitespace condensed.
IsCondensedPrefix(excerpt, text) ==
  /\ Len(excerpt) <= Len(text)
  /\ \A k \in 1..Len(excerpt) :
       /\ excerpt[k].ws = text[k].ws
       /\ excerpt[k].ws => excerpt[k].n = 1
       /\ ~excerpt[k].ws => excerpt[k].n <= text[k].n
       /\ (k < Len(excerpt) /\ ~excerpt[k].ws) => excerpt[k].n = text[k].n

\* C25: a call made to a provider that has no API key never sends a
\* request and never enters the Gemini queue: the step that makes it ends
\* it and changes nothing of the adapter but the call's position.  With
\* ALLOW_MOCK_RESPONSES it returns the placeholder, which names the provider
\* and the model and quotes the last user message of the conversation with
\* its whitespace condensed, cut to 220 characters; without it, the call
\* throws the missing-key error.
C25_NoKey ==
  /\ [](\A c \in Calls : NoKey(c) =>
          /\ pc[c] \in {"idle", "returned", "thrown"}
          /\ geminiQueue # c /\ prev[c] = 0
          /\ sent[c] = Zeros /\ llm.fetches[c] = 0
          /\ pc[c] = "idle" => llm.result[c] = NoResult
          /\ (pc[c] # "idle" /\ llm.ALLOW_MOCK_RESPONSES) =>
               /\ pc[c] = "returned"
               /\ llm.result[c].error = Undefined
               /\ llm.result[c].marker = <<llm.input[c].provider, llm.input[c].model>>
               /\ llm.result[c].finalAnswer =
                    "This is a placeholder response because API keys are not configured."
               /\ RunsLength(llm.result[c].excerpt) <= 220
               /\ \A text \in LastUserMessage(c) :
                    /\ IsCondensedPrefix(llm.result[c].excerpt, text)
                    /\ RunsLength(llm.result[c].excerpt) = Min(220, CondensedLength(text))
          /\ (pc[c] # "idle" /\ ~llm.ALLOW_MOCK_RESPONSES) =>
               /\ pc[c] = "thrown"
               /\ llm.result[c].error = PlainError("Missing API key")
               /\ llm.result[c].excerpt = <<>>)
  /\ [](\A c \in Calls :
          (NoKey(c) /\ pc[c] = "idle" /\ \A d \in Calls : d < c => pc[d] # "idle")
            => ENABLED callLlm(c))
  /\ [][\A c \in Calls :
          (NoKey(c) /\ pc[c] = "idle" /\ pc'[c] # "idle") =>
            /\ pc'[c] \in {"returned", "thrown"}
            /\ UNCHANGED <<fallbackModels, geminiQueue, sinceSettle, prev, modelIndex,
                           attempt, currentError, lastError, preferredError, timer,
                           slept, sent, failures, outcome>>
            /\ llm'.fetches = llm.fetches]_vars

\* GEMINI_API_KEY is set to the empty string; the second call, made with a
\* conversation of two user messages, got the placeholder, which quotes the
\* later one up to its 220th character.
C25_Witness ==
  /\ llm.env["gemini"] = SetTo("")
  /\ llm.ALLOW_MOCK_RESPONSES
  /\ llm.input[NumCalls].provider = "gemini"
  /\ pc[NumCalls] = "returned"
  /\ llm.result[NumCalls].excerpt = <<Run(FALSE, 10), Run(TRUE, 1), Run(FALSE, 209)>>

\* The turns agent `id` has taken so far in the rounds of the debate of
\* condition c, committed to the transcript or not yet.
OwnTurns(c, id) ==
  LET frame == debate[c]
      Own(turn) == turn.agentId = id /\ turn.round <= frame.rounds
      said == IF frame.stage = "round" THEN frame.transcript \o frame.contributions
              ELSE frame.transcript
  IN  SelectSeq(said, Own)

\* Agent k of condition c has been sent its prompt and not been answered.
IsAsked(c, k) == debate[c].stage = "round" /\ debate[c].agentIndex = k

\* Agent k of condition c has been given the synthesis prompt.
IsSynthesising(c, k) ==
  /\ debate[c].stage \in {"synthesis", "done"}
  /\ k = moderatorIndex(agents[c])

\* What the history of agent k of condition c holds if it is made of the
\* agent's own system message, the prompts written for it and its own
\* answers, and of nothing else.
OwnHistory(c, k) ==
  LET frame == debate[c]
      agent == agents[c][k]
      own == OwnTurns(c, agent.id)
      PromptFor(round) ==
        LET Before(turn) == turn.round = round - 1
        IN  Message("user",
                    buildRoundPrompt(round, frame.rounds, agent,
                                     SelectSeq(frame.transcript, Before)))
      exchanges == [i \in 1..2 * Len(own) |->
                      IF i % 2 = 1 THEN PromptFor((i + 1) \div 2)
                      ELSE Message("assistant", own[i \div 2].content)]
      InRounds(turn) == turn.round <= frame.rounds
  IN  <<SystemMessage(agent)>> \o exchanges
        \o (IF IsAsked(c, k) THEN <<PromptFor(Len(own) + 1)>> ELSE <<>>)
        \o (IF IsSynthesising(c, k)
            THEN <<Message("user",
                           buildModeratorPrompt(SelectSeq(frame.transcript, InRounds),
                                                frame.rounds))>>
            ELSE <<>>)

\* C26: in every debate under way, alone or beside another one, the history
\* of each agent is its own system message, the prompts written for that
\* agent and that agent's own answers in this debate, in order, and nothing
\* else; the messages of a backend call are the history of the agent the
\* call is made for; and a step changes the histories of one debate only,
\* the one whose call it settles.
C26_HistoriesOwned ==
  /\ [](\A c \in DebateConditions :
          debate[c].stage # "none" =>
            /\ DOMAIN debate[c].histories = {agents[c][k].id : k \in 1..Len(agents[c])}
            /\ \A k \in 1..Len(agents[c]) :
                 debate[c].histories[agents[c][k].id] = OwnHistory(c, k)
            /\ pending[c] # <<>> =>
                 /\ Len(pending[c]) = 1
                 /\ pending[c][1].messages =
                      OwnHistory(c, debate[c].agentIndex)
                 /\ pending[c][1].messages[1] =
                      SystemMessage(agents[c][debate[c].agentIndex]))
  /\ [][\A c \in DebateConditions :
          (debate[c].stage # "none" /\ debate'[c] # debate[c]) =>
            /\ pending[c] # <<>> /\ cpc[c] = "awaiting"
            /\ \A d \in DebateConditions \ {c} : debate'[d] = debate[d]]_vars

\* Two debates run side by side in concurrent mode; in one the moderator is
\* asked for the synthesis, in the other the second agent is asked, and the
\* moderator's history there holds its prompt and its own answer alone.
C26_Witness ==
  /\ ~serialize /\ epc = "running"
  /\ debate[2].stage = "synthesis"
  /\ Len(debate[2].histories[agents[2][1].id]) = 4
  /\ debate[3].stage = "round" /\ debate[3].agentIndex = 2
  /\ Len(debate[3].histories[agents[3][1].id]) = 3
  /\ debate[2].transcript[1].content # debate[2].transcript[2].content

\* The single-call conditions.
SingleConditions == Conditions \ DebateConditions

\* C28: a single-call condition makes one backend call and no more, whose
\* messages are one system message followed by one user message; when the
\* call returns the condition is fulfilled with a result whose transcript
\* is one turn, of round 1, whose content is the answer returned, which is
\* also the result's answer.
C28_SingleCall ==
  \A c \in SingleConditions :
    /\ issued[c] <= 1
    /\ cpc[c] # "idle" => issued[c] = 1
    /\ Len(pending[c]) <= 1
    /\ pending[c] # <<>> =>
         /\ cpc[c] = "awaiting"
         /\ Len(pending[c][1].messages) = 2
         /\ pending[c][1].messages[1].role = "system"
         /\ pending[c][1].messages[1].content.kind = SingleInstructions[c]
         /\ pending[c][1].messages[2].role = "user"
         /\ pending[c][1].messages[2].content.kind = "Question"
    /\ cpc[c] = "fulfilled" =>
         /\ pending[c] = <<>>
         /\ settledWith[c].answer \in BackendTexts
         /\ Len(settledWith[c].transcript) = 1
         /\ settledWith[c].transcript[1].round = 1
         /\ settledWith[c].transcript[1].content = settledWith[c].answer
         /\ settledWith[c].conditionId = ConditionIds[c]
    /\ (epc = "returned" /\ cpc[c] = "fulfilled") =>
         /\ Len(ResponseOf(c).transcript) = 1
         /\ ResponseOf(c).transcript[1].content = ResponseOf(c).answer
         /\ ResponseOf(c).answer = settledWith[c].answer

\* Both single-call conditions were fulfilled, with different answers, and
\* the Run was returned.
C28_Witness ==
  /\ epc = "returned"
  /\ cpc[1] = "fulfilled" /\ cpc[4] = "fulfilled"
  /\ issued[1] = 1 /\ issued[4] = 1
  /\ ResponseOf(1).answer.body = "t1" /\ ResponseOf(4).answer.body = "t2"

\* `history` is one system message followed by user and assistant messages
\* in turn, the first of them a user message.
Alternates(history) ==
  /\ Len(history) >= 1
  /\ history[1].role = "system"
  /\ \A i \in 2..Len(history) :
       history[i].role = (IF i % 2 = 0 THEN "user" ELSE "assistant")

\* `before` is the beginning of `after`.
IsPrefix(before, after) ==
  /\ Len(before) <= Len(after)
  /\ SubSeq(after, 1, Len(before)) = before

\* C30: as long as a debate lasts, the history of each of its agents is one
\* system message followed by user and assistant messages in turn; a step
\* only appends to it; when the agent has completed k round calls it holds
\* 1 + 2k messages, one more while the agent's next prompt awaits its
\* answer, and for the moderator one more user message once the synthesis
\* is asked for, the answer to which is not added.
C30_HistoryShape ==
  /\ [](\A c \in DebateConditions :
          debate[c].stage # "none" =>
            \A k \in 1..Len(agents[c]) :
              LET history == debate[c].histories[agents[c][k].id]
                  completed == Len(OwnTurns(c, agents[c][k].id))
              IN  /\ Alternates(history)
                  /\ history[1] = SystemMessage(agents[c][k])
                  /\ Len(history) = 1 + 2 * completed
                                      + (IF IsAsked(c, k) THEN 1 ELSE 0)
                                      + (IF IsSynthesising(c, k) THEN 1 ELSE 0)
                  /\ IsSynthesising(c, k) =>
                       /\ completed = debate[c].rounds
                       /\ history[Len(history)].role = "user"
                       /\ history[Len(history)].content.kind = "moderator"
                  /\ (~IsAsked(c, k) /\ ~IsSynthesising(c, k)) =>
                       Len(history) = 1 + 2 * completed)
  /\ [][\A c \in DebateConditions :
          (debate[c].stage # "none" /\ debate'[c].stage # "none") =>
            \A k \in 1..Len(agents[c]) :
              LET id == agents[c][k].id
              IN  /\ IsPrefix(debate[c].histories[id], debate'[c].histories[id])
                  /\ Len(debate'[c].histories[id]) <= Len(debate[c].histories[id]) + 2]_vars

\* A debate of two rounds between two agents, the second of which is the
\* moderator, has ended: the first agent's history has five messages, the
\* moderator's six.
C30_Witness ==
  /\ debate[2].stage = "done" /\ debate[2].rounds = 2
  /\ Len(agents[2]) = 2 /\ moderatorIndex(agents[2]) = 2
  /\ Len(debate[2].histories[agents[2][1].id]) = 5
  /\ Len(debate[2].histories[agents[2][2].id]) = 6

\* A ranking of the responses of the Run on display has been submitted.
RankedThisRun ==
  /\ client.submittedRanking.submitted
  /\ client.rankedRun = client.result.runId

\* The buttons "Reveal condition labels" and "View conversations" can be
\* clicked (lines 289-294).
RevealEnabled == client.result # NoRun /\ client.submittedRanking.submitted

\* C27, as claimed: whenever the condition labels of the Run on display are
\* shown or can be revealed, or its transcripts are shown or can be opened,
\* a ranking of that same Run has been submitted.
C27_RevealAfterRanking ==
  (LabelsShown \/ TranscriptsShown \/ RevealEnabled) => RankedThisRun

\* The labels and the transcripts of the second Run are on display, and
\* the only ranking ever saved is one of the first Run, saved while the
\* second was loading.
C27_Witness ==
  /\ client.result.runId = 2
  /\ client.rankedRun = 1
  /\ ~client.loading
  /\ LabelsShown /\ TranscriptsShown

\* A step of one of the operations the page offers on a Run it has
\* received: ranking, dragging, moving, the sliders, the two toggles, the
\* transcript tabs, the export.
RunOperation ==
  \/ handleRankingSubmit
  \/ \E blindId \in MovedIds : onDragStart(blindId)
  \/ onDragEnd
  \/ \E targetId \in DropTargets : handleDrop(targetId)
  \/ \E id \in MovedIds : \E direction \in {"up", "down"} : moveResponse(id, direction)
  \/ \E input \in SliderInputs : setConfidence(input[1], input[2])
  \/ exportRunData
  \/ toggleShowTranscripts
  \/ toggleRevealSources
  \/ onTranscriptChange("Response B")

\* C29: an operation on the Run on display leaves the Run as it was
\* received, its responses in the same order with the same blind ids,
\* answers, source conditions and transcripts, and sends no request; the
\* Run on display changes only when the answer to a question arrives; what
\* is on display and what is exported is a Run as the server sent it.
C29_RunUntouched ==
  /\ [][RunOperation =>
          /\ client.result # NoRun
          /\ client'.result = client.result
          /\ client'.sent = client.sent
          /\ client'.loading = client.loading]_vars
  /\ [][client'.result # client.result => client.loading /\ ~client'.loading]_vars
  /\ [](client.result # NoRun =>
          /\ client.result.responses \in ServedResponses
          /\ client.result.runId \in 1..client.sent)
  /\ [](client.exported.run # NoRun =>
          client.exported.run.responses \in ServedResponses)

\* The first Run was ranked after its first card was moved to the end and
\* its slider set, then revealed and exported: the exported Run is the one
\* on display, in the order the server sent.
C29_Witness ==
  /\ client.result.runId = 1
  /\ client.correctnessOrder[4] = "Response A"
  /\ client.confidenceScores["Response A"] = 80
  /\ client.submittedRanking.correctnessOrder = client.correctnessOrder
  /\ LabelsShown /\ TranscriptsShown
  /\ client.exported.run = client.result
  /\ BlindIds(client.result) = labels

\* The placeholder the coordinator keeps for slot c when its runner failed
\* with `error`: the slot's own identity, no transcript.
PlaceholderOf(c, error) ==
  [conditionId |-> ConditionIds[c],
   conditionLabel |-> fallbackMappings[c].label,
   answer |-> [body |-> "This condition failed to run.", error |-> error.message],
   transcript |-> <<>>]

\* C31: an error thrown by a backend call of a debate-backed or single-call
\* condition is not caught by the runner.  The step in which the call throws
\* rejects the runner's promise with that very error, issues no call and
\* leaves nothing of the debate's transcript; a rejected runner never makes
\* another call and stays rejected; and the coordinator puts the placeholder
\* with the empty transcript in its slot, in the results of the serial loop
\* and in the returned Run.
C31_ErrorsPropagate ==
  /\ [][\A c \in Conditions : \A error \in BackendErrors :
          BackendThrows(c, error) =>
            /\ cpc'[c] = "rejected"
            /\ settledWith'[c] = error
            /\ issued'[c] = issued[c]
            /\ pending'[c] = <<>>
            /\ debate'[c].transcript = <<>> /\ debate'[c].contributions = <<>>]_vars
  /\ [][\A c \in Conditions :
          cpc[c] = "rejected" =>
            /\ cpc'[c] = "rejected"
            /\ issued'[c] = issued[c]
            /\ pending'[c] = <<>>
            /\ settledWith'[c] = settledWith[c]]_vars
  /\ [](\A c \in Conditions :
          cpc[c] = "rejected" =>
            /\ settledWith[c] \in BackendErrors
            /\ (serialize /\ c <= Len(results))
                 => results[c] = PlaceholderOf(c, settledWith[c])
            /\ epc = "returned" =>
                 /\ results[c] = PlaceholderOf(c, settledWith[c])
                 /\ ResponseOf(c).transcript = <<>>
                 /\ ResponseOf(c).answer = PlaceholderOf(c, settledWith[c]).answer
                 /\ ResponseOf(c).sourceConditionId = ConditionIds[c])

\* A Run was returned after the first debate failed on its second call, the
\* first agent's turn already taken, the second debate failed on its
\* synthesis call, and the last single-call condition failed.
C31_Witness ==
  /\ epc = "returned"
  /\ Rejected = {2, 3, 4}
  /\ issued[2] = 2
  /\ issued[3] = Max(1, debateRounds) * AgentsOf(3) + 1
  /\ ResponseOf(2).transcript = <<>> /\ ResponseOf(3).transcript = <<>>

\* The request call c has in flight is answered with text in this step: the
\* request settles and leaves no failure behind.
Answered(c) ==
  /\ pc[c] = "inflight" /\ pc'[c] # "inflight"
  /\ failures'[c][modelIndex[c]] = failures[c][modelIndex[c]]

\* C32: when a request to candidate i failed with a retryable error and a
\* retry on the same candidate is answered, within the retry budget, the
\* call returns the text of candidate i; every failure before it on that
\* candidate was retryable; no request was sent to a later candidate, and
\* none is sent by the call afterwards.
C32_RetrySucceeds ==
  /\ [][\A c \in Calls :
          (Answered(c) /\ failures[c][modelIndex[c]] # <<>>)
            => /\ pc'[c] = "resolved"
               /\ modelIndex'[c] = modelIndex[c]
               /\ outcome'[c] = Text(modelCandidates[modelIndex[c]])]_vars
  /\ [](\A c \in Calls :
          LET i == modelIndex[c]
          IN  (pc[c] = "resolved" /\ failures[c][i] # <<>>)
                => /\ \A k \in 1..Len(failures[c][i]) : RetryableCause(failures[c][i][k])
                   /\ Len(failures[c][i]) <= GEMINI_MAX_RETRIES
                   /\ sent[c][i] = Len(failures[c][i]) + 1
                   /\ outcome[c] = Text(modelCandidates[i])
                   /\ \A j \in i + 1..NoCandidates : sent[c][j] = 0)
  /\ [][\A c \in Calls :
          pc[c] \in {"resolved", "returned"}
            => /\ pc'[c] \in {"resolved", "returned"}
               /\ \A j \in 1..NoCandidates : sent'[c][j] <= sent[c][j]]_vars

\* The preferred model answered 429, then 503, then with text on its last
\* retry, and the fallback that is configured got no request.
C32_Witness ==
  \E c \in Calls :
    /\ pc[c] = "resolved" /\ modelIndex[c] = 1 /\ NoCandidates = 2
    /\ Len(failures[c][1]) = GEMINI_MAX_RETRIES
    /\ failures[c][1][1][1] = 429 /\ failures[c][1][2][1] = 503
    /\ sent[c][2] = 0
    /\ outcome[c] = Text(GEMINI_MODEL)

\* A failure that is neither retryable, nor a 404, nor a quota error: a
\* timeout, a response without text, a 400.
FatalCause(f) == ~RetryableCause(f) /\ ~NotFoundCause(f) /\ ~QuotaCause(f)

\* The request call c has in flight fails in this step with such a failure.
FailsFatally(c) ==
  /\ pc[c] = "inflight"
  /\ Len(failures'[c][modelIndex[c]]) = Len(failures[c][modelIndex[c]]) + 1
  /\ FatalCause(LastOf(failures'[c][modelIndex[c]]))

\* C33: a failure that is neither retryable, nor model-not-found, nor a
\* quota error ends the whole adapter call in the step it occurs: the call
\* rejects with that very error, whatever failed before it; it is the last
\* failure of its candidate, no later candidate has got or gets a request,
\* and the call sends nothing more.
C33_FatalEndsCall ==
  /\ [][\A c \in Calls :
          FailsFatally(c) =>
            /\ pc'[c] = "rejected"
            /\ modelIndex'[c] = modelIndex[c]
            /\ sent'[c] = sent[c]
            /\ outcome'[c] = currentError'[c]
            /\ outcome'[c].type \in {"GeminiCallError", "Error"}
            /\ outcome'[c] # AllModels404Error
            /\ <<outcome'[c].status, outcome'[c].bodyStatus>>
                 = LastOf(failures'[c][modelIndex[c]])
            /\ isGeminiCallError(outcome'[c])
                 => outcome'[c].model = modelCandidates[modelIndex[c]]]_vars
  /\ [](\A c \in Calls : \A i \in 1..NoCandidates :
          \A k \in 1..Len(failures[c][i]) :
            FatalCause(failures[c][i][k])
              => /\ k = Len(failures[c][i])
                 /\ sent[c][i] = k
                 /\ pc[c] = "rejected" /\ modelIndex[c] = i
                 /\ \A j \in i + 1..NoCandidates : sent[c][j] = 0)
  /\ [][\A c \in Calls :
          pc[c] = "rejected" => \A j \in 1..NoCandidates : sent'[c][j] <= sent[c][j]]_vars

\* A call rejected with the 400 that followed a 503 on the preferred model,
\* one attempt left unused and the configured fallback never tried.
C33_Witness ==
  \E c \in Calls :
    /\ pc[c] = "rejected" /\ NoCandidates = 2 /\ modelIndex[c] = 1
    /\ failures[c][1] = << <<503, "">>, <<400, "INVALID_ARGUMENT">> >>
    /\ sent[c][2] = 0
    /\ outcome[c].status = 400

\* Candidate i of call c failed with 429 / 5xx answers and last with a 404.
MixedThenNotFound(f) ==
  /\ Len(f) >= 2
  /\ \A k \in 1..Len(f) - 1 : RetryableCause(f[k])
  /\ NotFoundCause(LastOf(f))

\* C34: when the attempts on a candidate fail with one or more 429 / 5xx
\* answers and then with a 404, the last error alone decides.  In the step
\* of the 404 the preferred error stays what it was before this candidate;
\* the call goes on to the next candidate with attempt 0 and the pre-call
\* spacing, or, on the last candidate, throws what was preferred before,
\* the all-404 error when nothing was.  No error of such a candidate is
\* ever the preferred one or the one raised.
C34_LastErrorDecides ==
  /\ [][\A c \in Calls :
          LET i == modelIndex[c]
          IN  (pc[c] = "inflight" /\ ~MixedThenNotFound(failures[c][i])
                 /\ MixedThenNotFound(failures'[c][i]))
                => /\ preferredError'[c] = preferredError[c]
                   /\ isModelNotFoundError(lastError'[c])
                   /\ IF i < NoCandidates
                      THEN /\ pc'[c] = "sleeping"
                           /\ modelIndex'[c] = i + 1
                           /\ attempt'[c] = 0
                           /\ currentError'[c] = Undefined
                           /\ timer'[c] = GEMINI_REQUEST_SPACING_MS
                      ELSE /\ pc'[c] = "rejected"
                           /\ outcome'[c] = IF preferredError[c] = Undefined
                                            THEN AllModels404Error
                                            ELSE preferredError[c]]_vars
  /\ [](\A c \in Calls : \A i \in 1..NoCandidates :
          MixedThenNotFound(failures[c][i])
            => /\ sent[c][i] = Len(failures[c][i])
               /\ modelIndex[c] > i \/ pc[c] = "rejected"
               /\ preferredError[c] # Undefined
                    => preferredError[c].model # modelCandidates[i]
               /\ pc[c] = "rejected" => outcome[c].model # modelCandidates[i])

\* Both candidates answered 429 and then 404: the call was rejected with the
\* all-404 error although quota errors occurred.
C34_Witness ==
  \E c \in Calls :
    /\ pc[c] = "rejected" /\ NoCandidates = 2
    /\ MixedThenNotFound(failures[c][1]) /\ failures[c][1][1][1] = 429
    /\ MixedThenNotFound(failures[c][2])
    /\ outcome[c] = AllModels404Error

\* Call c has failed: its promise rejected, its caller may have resumed.
Failed(c) == pc[c] \in {"rejected", "thrown"}

\* C35: the queue is never poisoned or starved.  The task of a queued call
\* is ready to start as soon as every call enqueued before it has settled,
\* rejected or not; a request of a call that runs after a failed one is
\* answered with text like any other, and the call returns it; and, every
\* request being answered or timing out, every enqueued call starts and
\* settles.
C35_QueueLive ==
  /\ [](\A c \in Calls :
          (pc[c] = "queued" /\ \A d \in Calls : d < c => Settled(d))
            => ENABLED StartTask(c))
  /\ [][\A c \in Calls :
          ((\E d \in Calls : d < c /\ Failed(d)) /\ Answered(c))
            => /\ pc'[c] = "resolved"
               /\ outcome'[c] = Text(modelCandidates[modelIndex[c]])]_vars
  /\ \A c \in Calls : (pc[c] = "queued") ~> Started(c)
  /\ \A c \in Calls : (pc[c] = "queued") ~> Settled(c)

\* Call 2, chained on call 1 in the queue, has returned its text after
\* call 1 was rejected.
C35_Witness ==
  /\ pc[1] = "thrown" /\ prev[2] = 1
  /\ pc[2] = "resolved" /\ outcome[2].type = "text"

\* Call c goes to openai, anthropic or xai.
ToOther(c) == llm.input[c].provider \in {"openai", "anthropic", "xai"}

\* What a request to the provider of call c can end in.
ProviderOutcomes(c) ==
  {callProvider(llm.input[c].provider, reply) : reply \in HttpReplies}

\* C36: only Gemini calls are serialized and retried.  A call to openai,
\* anthropic or xai is never in the Gemini queue, never sleeps and never
\* uses a retry or a fallback candidate; callLlm sends its one request in
\* the step it is called, whatever the Gemini queue is doing; the call
\* returns the text of that request or throws its error, a response that is
\* not OK included, and sends nothing more.
C36_OthersDirect ==
  /\ [](\A c \in Calls :
          ToOther(c) =>
            /\ pc[c] \in {"idle", "fetching", "returned", "thrown"}
            /\ geminiQueue # c /\ prev[c] = 0
            /\ timer[c] = 0 /\ slept[c] = 0
            /\ modelIndex[c] = 0 /\ attempt[c] = 0 /\ sent[c] = Zeros
            /\ llm.fetches[c] = IF pc[c] = "idle" THEN 0 ELSE 1
            /\ (pc[c] = "idle" /\ \A d \in Calls : d < c => pc[d] # "idle")
                 => ENABLED callLlm(c)
            /\ pc[c] = "fetching" =>
                 \A reply \in HttpReplies :
                    ENABLED FetchSettles(c, callProvider(llm.input[c].provider, reply))
            /\ pc[c] = "returned" => llm.result[c] = ProviderText
            /\ pc[c] = "thrown" =>
                 /\ llm.result[c] \in ProviderOutcomes(c)
                 /\ llm.result[c].error.type = "Error")
  /\ [][\A c \in Calls :
          ToOther(c) =>
            /\ (pc[c] = "idle" /\ pc'[c] # "idle")
                 => /\ pc'[c] = "fetching"
                    /\ geminiQueue' = geminiQueue /\ sinceSettle' = sinceSettle
            /\ (pc[c] = "fetching" /\ pc'[c] # "fetching")
                 => /\ llm'.result[c] \in ProviderOutcomes(c)
                    /\ pc'[c] = IF llm'.result[c].error = Undefined
                                THEN "returned" ELSE "thrown"
            /\ pc[c] \in {"returned", "thrown"}
                 => pc'[c] = pc[c] /\ llm'.result[c] = llm.result[c]]_vars

\* A call to xai has thrown the 429 of its one request while the Gemini
\* call made before it has only begun its pre-call spacing sleep.
C36_Witness ==
  /\ llm.input[1].provider = "gemini" /\ pc[1] = "sleeping" /\ slept[1] = 0
  /\ llm.input[2].provider = "xai" /\ pc[2] = "thrown"
  /\ llm.result[2].error.status = 429
  /\ llm.fetches[2] = 1

\* C37, as stated: a debate-backed condition always runs at least one
\* round.  The transcript of a condition that completed begins with the
\* round-1 turn of each of its A agents and ends with the synthesis turn at
\* a round of 2 or more; for a configured count of 0 or less it is these
\* A + 1 turns, the synthesis at round 2.
C37_AtLeastOneRound ==
  \A c \in DebateConditions :
    cpc[c] = "fulfilled" =>
      LET t == settledWith[c].transcript
          A == AgentsOf(c)
      IN  /\ RoundsOf(c) >= 1
          /\ Len(t) >= A + 1
          /\ \A i \in 1..A : t[i].round = 1 /\ t[i].agentId = agents[c][i].id
          /\ t[Len(t)].round = RoundsOf(c) + 1
          /\ (debateRounds # NotANumber /\ debateRounds <= 0)
               => Len(t) = A + 1 /\ t[A + 1].round = 2

\* A debate of two agents has completed without any round: its transcript
\* is the synthesis turn alone, whose round is not a number.
C37_Witness ==
  \E c \in DebateConditions :
    /\ cpc[c] = "fulfilled" /\ AgentsOf(c) = 2
    /\ debateRounds = NotANumber
    /\ issued[c] = 1
    /\ Len(settledWith[c].transcript) = 1
    /\ settledWith[c].transcript[1].round = NotANumber

\* The callLlm invocations a condition makes when none of them fails.
CallsOf(c) ==
  IF c \in DebateConditions THEN Max(1, debateRounds) * AgentsOf(c) + 1 ELSE 1

TotalIssued == issued[1] + issued[2] + issued[3] + issued[4]

\* C38: with R rounds and A agents, a condition never makes more than
\* R*A + 1 calls if it is a debate and 1 if it is a single call, one call
\* at a step; a condition that completed made exactly that many; so a Run
\* returned without any failure took 2*(R*A + 1) + 2 callLlm invocations,
\* in serial and in concurrent mode.
C38_CallCount ==
  /\ [](\A c \in Conditions :
          /\ issued[c] <= CallsOf(c)
          /\ cpc[c] = "fulfilled" => issued[c] = CallsOf(c)
          /\ cpc[c] = "idle" => issued[c] = 0)
  /\ []((epc = "returned" /\ Rejected = {}) =>
          /\ issued[1] = 1 /\ issued[4] = 1
          /\ issued[2] = Max(1, debateRounds) * AgentsOf(2) + 1
          /\ issued[3] = Max(1, debateRounds) * AgentsOf(3) + 1
          /\ AgentsOf(2) = AgentsOf(3)
          /\ TotalIssued = 2 * (Max(1, debateRounds) * AgentsOf(2) + 1) + 2)
  /\ [][\A c \in Conditions :
          /\ issued'[c] \in {issued[c], issued[c] + 1}
          /\ epc = "returned" => issued'[c] = issued[c]]_vars

\* A Run of two rounds and two agents was returned in concurrent mode
\* without a failure, after 12 calls.
C38_Witness ==
  /\ epc = "returned" /\ ~serialize /\ Rejected = {}
  /\ debateRounds = 2 /\ AgentsOf(2) = 2
  /\ TotalIssued = 12

\* `order` holds each of `ids` once and nothing else.
IsPermutationOf(order, ids) ==
  /\ Len(order) = Len(ids)
  /\ {order[k] : k \in 1..Len(order)} = {ids[k] : k \in 1..Len(ids)}
  /\ Cardinality({order[k] : k \in 1..Len(order)}) = Len(order)

\* C39: once a Run is received the correctness order is the Run's four
\* blind ids in the order received, and it stays a permutation of them
\* through every sequence of drags, drops and moves.  Whatever card is
\* dropped on whatever card and whatever card is moved up or down, the
\* result of reorderList and of moveResponse is a permutation of the same
\* ids; a move of the first card up or of the last card down, and an
\* operation on an id that is not in the list, leave the order as it is.
C39_OrderIsPermutation ==
  /\ [](client.result # NoRun =>
          LET ids == BlindIds(client.result)
              order == client.correctnessOrder
              anyId == ArrangeCards \cup {"Response Z"}
          IN  /\ Len(ids) = 4
              /\ IsPermutationOf(ids, labels)
              /\ IsPermutationOf(order, ids)
              /\ \A s \in anyId : \A t \in anyId :
                   /\ IsPermutationOf(reorderList(order, s, t), ids)
                   /\ (s = "Response Z" \/ t = "Response Z") => reorderList(order, s, t) = order
              /\ \A id \in anyId : \A direction \in {"up", "down"} :
                   /\ IsPermutationOf(Moved(order, id, direction), ids)
                   /\ (direction = "up" /\ IndexOf(order, id) = 1)
                        => Moved(order, id, direction) = order
                   /\ (direction = "down" /\ IndexOf(order, id) = Len(order))
                        => Moved(order, id, direction) = order
                   /\ id = "Response Z" => Moved(order, id, direction) = order)
  /\ [][(client'.result # client.result /\ client'.result # NoRun)
          => client'.correctnessOrder = BlindIds(client'.result)]_vars
  /\ [][(client.result # NoRun /\ client'.result = client.result)
          => IsPermutationOf(client'.correctnessOrder, BlindIds(client.result))]_vars

\* The cards of the first Run were dragged and moved into the reverse of
\* the order they came in, the last drag still under way.
C39_Witness ==
  /\ client.result.runId = 1
  /\ client.correctnessOrder =
       <<"Response D", "Response C", "Response B", "Response A">>
  /\ client.draggingId = "Response B"

\* The place of the first occurrence of v in values.
FirstIndexOf(values, v) ==
  CHOOSE k \in 1..Len(values) : values[k] = v /\ \A j \in 1..k - 1 : values[j] # v

\* `unique` is `values` with duplicates removed: each value once, in the
\* order of first occurrence.
IsDeduplicated(unique, values) ==
  /\ {unique[k] : k \in 1..Len(unique)} = {values[k] : k \in 1..Len(values)}
  /\ \A i \in 1..Len(unique) : \A j \in 1..Len(unique) :
       i < j => FirstIndexOf(values, unique[i]) < FirstIndexOf(values, unique[j])

\* Lists of at most three model names, of three names.
ModelLists ==
  LET names == {GEMINI_MODEL, "gemini-flash-latest", "gemini-2.0-flash"}
  IN  UNION {[1..n -> names] : n \in 1..3}

\* C40: the candidates of a call are the preferred model followed by the
\* configured fallback models in their order, duplicates removed (as
\* uniqueValues does for every list); a running call is at one candidate,
\* has sent nothing to the candidates after it, moves from a candidate to
\* the next one only, and sends each request to the candidate it is at: no
\* candidate it has moved past gets another request.
C40_CandidateOrder ==
  /\ [](/\ modelCandidates[1] = GEMINI_MODEL
        /\ IsDeduplicated(modelCandidates, <<GEMINI_MODEL>> \o fallbackModels)
        /\ \A values \in ModelLists : IsDeduplicated(uniqueValues(values), values)
        /\ \A c \in Calls :
             Running(c) =>
               /\ modelIndex[c] \in 1..NoCandidates
               /\ \A j \in 1..NoCandidates : j > modelIndex[c] => sent[c][j] = 0
               /\ \A j \in 1..NoCandidates : j < modelIndex[c] => sent[c][j] >= 1)
  /\ [][\A c \in Calls :
          /\ (Running(c) /\ Running(c)')
               => modelIndex'[c] \in {modelIndex[c], modelIndex[c] + 1}
          /\ (Running(c) /\ modelIndex'[c] = modelIndex[c] + 1)
               => sent'[c] = sent[c] /\ pc[c] = "inflight"
          /\ Fires(c)
               => /\ sent'[c][modelIndex[c]] = sent[c][modelIndex[c]] + 1
                  /\ modelIndex'[c] = modelIndex[c]
                  /\ \A j \in 1..NoCandidates :
                       j # modelIndex[c] => sent'[c][j] = sent[c][j]
          /\ (Started(c) /\ ~Fires(c))
               => \A j \in 1..NoCandidates : sent'[c][j] <= sent[c][j]]_vars

\* With the preferred model repeated among the fallbacks and the fallback
\* named twice, a call is at its second and last candidate after three
\* requests to the first.
C40_Witness ==
  \E c \in Calls :
    /\ Len(fallbackModels) = 3
    /\ modelCandidates = <<GEMINI_MODEL, "gemini-flash-latest">>
    /\ pc[c] = "inflight" /\ modelIndex[c] = 2
    /\ sent[c] = <<GEMINI_MAX_RETRIES + 1, 1>>

====
